---- MODULE Spec2Model ----
(***************************************************************************)
(* A model of the bomberman arena game: the per-client simulation          *)
(* (js/game.js, player.js, bomb.js), the shared real-time store the        *)
(* clients read and write through NetworkManager (network.js), and the     *)
(* room lifecycle driven from the lobby (js/lobby.js).                     *)
(*                                                                         *)
(* Coordinates are 0-based as in the source; a grid is a sequence of rows, *)
(* so the source's grid[y][x] is grid[y + 1][x + 1] here.                  *)
(***************************************************************************)
EXTENDS Integers, Sequences, FiniteSets, TLC

VARIABLES
    bGrid, bBomb, bResult, bDone

\* the running match: each client's GameManager (cl), the shared game state
\* (db), the id generators and the count of moves made (ids), what each
\* client's steps did (obs, seen), the bombs whose fuse time has passed
\* (clock), and the situation the run started from (setup)
VARIABLES
    cl, db, ids, obs, clock, seen, setup

bombVars == <<bGrid, bBomb, bResult, bDone>>

gameVars == <<cl, db, ids, obs, clock, seen, setup>>

\* the room: the shared room record (room) and each user's lobby or game
\* page (users)
VARIABLES
    room, users

roomVars == <<room, users>>

\* one client's end-of-match detector (endg), one run of the grid generator
\* (gen), one client's record of processed explosions (dedup), and the
\* clients of a match that is starting (start)
VARIABLES
    endg, gen, dedup, start

\* one observing client's view of the other players' connection (disc),
\* one client's scheduled chain detonations (chainq), the throttled
\* publication of the local player (thr), and one application of a grid
\* layout (lay)
VARIABLES
    disc, chainq, thr, lay

sideVars == <<disc, chainq, thr, lay>>

\* the players one client's startGame creates (spawn), the colour indexes
\* of a room's roster (color), the clients whose startGame waits for the
\* shared state to fill (defer), and the end of the match on the game pages
\* of a room (fin)
VARIABLES
    spawn, color, defer, fin

lateVars == <<spawn, color, defer, fin>>

moreVars == <<endg, gen, dedup, start, sideVars, lateVars>>

vars == <<bombVars, gameVars, roomVars, moreVars>>

\* each specification below drives one group of variables; the others rest
IdleBomb == bGrid = <<>> /\ bBomb = <<>> /\ bResult = <<>> /\ bDone = FALSE
IdleGame ==
    /\ cl = <<>> /\ db = <<>> /\ ids = <<>> /\ obs = <<>>
    /\ clock = {} /\ seen = {} /\ setup = <<>>
IdleRoom == room = <<>> /\ users = <<>>
IdleEnd == endg = <<>>
IdleGen == gen = <<>>
IdleDedup == dedup = <<>>
IdleStart == start = <<>>
IdleDisc == disc = <<>>
IdleChain == chainq = <<>>
IdleThr == thr = <<>>
IdleLay == lay = <<>>
IdleSide == IdleDisc /\ IdleChain /\ IdleThr /\ IdleLay
IdleFour == IdleEnd /\ IdleGen /\ IdleDedup /\ IdleStart
IdleSpawn == spawn = <<>>
IdleColor == color = <<>>
IdleDefer == defer = <<>>
IdleFin == fin = <<>>
IdleLate == IdleSpawn /\ IdleColor /\ IdleDefer /\ IdleFin
IdleMore == IdleFour /\ IdleSide /\ IdleLate

(***************************************************************************)
(* Tile codes (game.js generateGrid / player.js canMoveTo comments).       *)
(***************************************************************************)
Empty == 0
Wall == 1
Destructible == 2
BombOccupied == 3
PowerUpTile == 4

NoVal == "undefined"

GridHeight(grid) == Len(grid)
GridWidth(grid) == IF Len(grid) = 0 THEN 0 ELSE Len(grid[1])

\* grid[y][x] of the source, for a cell known to be inside the grid
TileAt(grid, x, y) == grid[y + 1][x + 1]

InGrid(grid, x, y) ==
    /\ y >= 0 /\ y < GridHeight(grid)
    /\ x >= 0 /\ x < GridWidth(grid)

SetTile(grid, x, y, v) == [grid EXCEPT ![y + 1][x + 1] = v]

(***************************************************************************)
(* Bomb.explode (bomb.js): the blast cells of one bomb on a grid.          *)
(***************************************************************************)
RECURSIVE RayThroughCrate(_, _, _, _, _, _, _)
RayThroughCrate(grid, x, y, dx, dy, i, range) ==
    IF i > range THEN <<>>
    ELSE LET explX == x + dx * i
             explY == y + dy * i
         IN IF ~InGrid(grid, explX, explY) THEN <<>>
            ELSE IF TileAt(grid, explX, explY) = Wall THEN <<>>
            ELSE <<<<explX, explY>>>> \o RayThroughCrate(grid, x, y, dx, dy, i + 1, range)

\* the `for (let i = 1; i <= this.range; i++)` loop of one direction
RECURSIVE Ray(_, _, _, _, _, _, _)
Ray(grid, x, y, dx, dy, i, range) ==
    IF i > range THEN <<>>
    ELSE LET explX == x + dx * i
             explY == y + dy * i
         IN IF ~InGrid(grid, explX, explY) THEN <<>>
            ELSE IF TileAt(grid, explX, explY) = Wall THEN <<>>
            ELSE IF TileAt(grid, explX, explY) = Destructible THEN <<<<explX, explY>>>>
            ELSE <<<<explX, explY>>>> \o Ray(grid, x, y, dx, dy, i + 1, range)

\* directions in the order of the source: up, down, left, right
Directions == <<<<0, -1>>, <<0, 1>>, <<-1, 0>>, <<1, 0>>>>

\* explosionData.explosions of Bomb.explode, as the list of <<x, y>> cells
ExplodeCells(grid, x, y, range) ==
    <<<<x, y>>>>
        \o Ray(grid, x, y, Directions[1][1], Directions[1][2], 1, range)
        \o Ray(grid, x, y, Directions[2][1], Directions[2][2], 1, range)
        \o Ray(grid, x, y, Directions[3][1], Directions[3][2], 1, range)
        \o Ray(grid, x, y, Directions[4][1], Directions[4][2], 1, range)

SeqToSet(s) == {s[i] : i \in 1..Len(s)}

(***************************************************************************)
(* Player (player.js).  speed is kept in half-tiles per second (speed2 =   *)
(* 2 * speed) so that it stays an integer.  invPast stands for             *)
(* `Date.now() > this.invincibleUntil` on the clock of the client that     *)
(* holds the object: TRUE for invincibleUntil = 0.                         *)
(***************************************************************************)
NewPlayer(id, x, y) ==
    [id |-> id, gridX |-> x, gridY |-> y, alive |-> TRUE,
     kills |-> 0, deaths |-> 0, speed2 |-> 4,
     maxBombs |-> 1, currentBombs |-> 0, bombRange |-> 2,
     canKickBombs |-> FALSE, invincible |-> FALSE, invPast |-> TRUE]

PlayerIsAt(p, x, y) == p.gridX = x /\ p.gridY = y

\* a kill that an invincibility power-up does not stop
KillSucceedsAlive(p) == p.alive

\* the return value of Player.kill
KillSucceeds(p) == ~p.invincible /\ p.alive

\* a kill that forgets to count the death
KillNoCount(p) ==
    IF KillSucceeds(p) THEN [p EXCEPT !.alive = FALSE] ELSE p

\* the player after Player.kill
Kill(p) ==
    IF KillSucceeds(p)
    THEN [p EXCEPT !.alive = FALSE, !.deaths = @ + 1]
    ELSE p

CanPlaceBomb(p) == p.alive /\ p.currentBombs < p.maxBombs

\* Player.placeBomb / Player.bombExploded: the currentBombs counter
PlayerPlaceBomb(p) ==
    IF CanPlaceBomb(p) THEN [p EXCEPT !.currentBombs = @ + 1] ELSE p

BombExplodedNoClamp(p) == [p EXCEPT !.currentBombs = @ - 1]

BombExploded(p) ==
    [p EXCEPT !.currentBombs = IF @ - 1 > 0 THEN @ - 1 ELSE 0]

PowerUpTypes == {"speed", "bomb", "range", "kick", "invincible"}

Min(a, b) == IF a < b THEN a ELSE b

ApplyPowerUp(p, type) ==
    CASE type = "speed" -> [p EXCEPT !.speed2 = Min(8, @ + 1)]
      [] type = "bomb" -> [p EXCEPT !.maxBombs = Min(8, @ + 1)]
      [] type = "range" -> [p EXCEPT !.bombRange = Min(10, @ + 1)]
      [] type = "kick" -> [p EXCEPT !.canKickBombs = TRUE]
      [] type = "invincible" -> [p EXCEPT !.invincible = TRUE, !.invPast = FALSE]
      [] OTHER -> p

\* Player.update: the invincibility flag is dropped once its deadline has passed
PlayerUpdate(p) ==
    IF p.invincible /\ p.invPast THEN [p EXCEPT !.invincible = FALSE] ELSE p

\* Player.canMoveTo
CanMoveTo(grid, x, y) ==
    /\ InGrid(grid, x, y)
    /\ TileAt(grid, x, y) \in {Empty, PowerUpTile}

(***************************************************************************)
(* Keyed collections.  A JavaScript Map (game.js bombs, powerups) is a     *)
(* sequence of records with a `key` field, in insertion order; an object   *)
(* of the shared store is a function from its keys.                        *)
(***************************************************************************)
MapKeys(m) == {m[i].key : i \in 1..Len(m)}
MapHas(m, k) == k \in MapKeys(m)
MapGet(m, k) == m[CHOOSE i \in 1..Len(m) : m[i].key = k]
MapDelete(m, k) == SelectSeq(m, LAMBDA e : e.key # k)
MapSet(m, k, v) ==
    IF MapHas(m, k)
    THEN [i \in 1..Len(m) |-> IF m[i].key = k THEN v ELSE m[i]]
    ELSE Append(m, v)

\* the keys of a store object in ascending order (Object.entries)
RECURSIVE SortedKeys(_)
SortedKeys(S) ==
    IF S = {} THEN <<>>
    ELSE LET k == CHOOSE a \in S : \A b \in S : a <= b
         IN <<k>> \o SortedKeys(S \ {k})

ObjDelete(f, k) == [x \in (DOMAIN f) \ {k} |-> f[x]]
ObjSet(f, k, v) == [x \in (DOMAIN f) \cup {k} |-> IF x = k THEN v ELSE f[x]]

(***************************************************************************)
(* The running match.  A handler of one client is an operator on a world   *)
(* record w: the fields of that client's GameManager (grid, players,       *)
(* bombs, ...), the shared game state db it writes to, the id counters,    *)
(* and the record of what the handler did (dets, applied).                 *)
(*                                                                         *)
(* Bomb ids, power-up ids and the store's push keys are unique strings in  *)
(* the source (generateSafeId, push); here they are fresh numbers.  NoId   *)
(* and NoPlayer stand for a field that is `undefined`.                     *)
(***************************************************************************)
NoId == 0
NoPlayer == "undefined"
ProcessedCapacity == 64
CountCap == 2

Bump(n) == Min(CountCap, n + 1)
Count(f, k) == IF k \in DOMAIN f THEN f[k] ELSE 0
Channels(f, k) == IF k \in DOMAIN f THEN f[k] ELSE {}

\* Player.serialize: every rule field of the player goes to the store
Serialize(p) == p

\* NetworkManager.updatePlayerState: set(gameState/players/<me>)
UpdatePlayerState(w, p) ==
    [w EXCEPT !.db.players = ObjSet(@, w.me, Serialize(p))]

\* a rememberExplosion whose eviction shifts the order list only
RememberExplosionKeep(w, explosionId) ==
    IF explosionId = NoId \/ explosionId \in w.processedIds THEN w
    ELSE IF Len(w.processedOrder) + 1 > ProcessedCapacity
         THEN [w EXCEPT !.processedIds = @ \cup {explosionId},
                        !.processedOrder = Tail(Append(@, explosionId))]
         ELSE [w EXCEPT !.processedIds = @ \cup {explosionId},
                        !.processedOrder = Append(@, explosionId)]

\* GameManager.rememberExplosion
RememberExplosion(w, explosionId) ==
    IF explosionId = NoId \/ explosionId \in w.processedIds THEN w
    ELSE IF Len(w.processedOrder) + 1 > ProcessedCapacity
         THEN [w EXCEPT !.processedIds = (@ \cup {explosionId}) \ {Head(w.processedOrder)},
                        !.processedOrder = Tail(Append(@, explosionId))]
         ELSE [w EXCEPT !.processedIds = @ \cup {explosionId},
                        !.processedOrder = Append(@, explosionId)]

\* GameManager.spawnPowerUp
SpawnPowerUp(w, x, y, type) ==
    LET pu == [key |-> w.nextPow, x |-> x, y |-> y, type |-> type, collected |-> FALSE]
    IN [w EXCEPT !.powerups = MapSet(@, pu.key, pu),
                 !.grid = SetTile(@, x, y, PowerUpTile),
                 !.db.powerups = ObjSet(@, pu.key, [x |-> x, y |-> y, type |-> type]),
                 !.nextPow = @ + 1]

\* the order in which a client's players Map is walked (the roster order)
PlayerOrder == <<"p1", "p2", "p3">>

\* explodeBomb, "Kill players": one player of the players.forEach at one blast cell
KillPlayerAt(w, bomb, x, y, pid) ==
    IF pid \notin DOMAIN w.players THEN w
    ELSE LET player == w.players[pid]
         IN IF ~(PlayerIsAt(player, x, y) /\ KillSucceeds(player)) THEN w
            ELSE LET isSuicide == pid = bomb.playerId
                     hasKiller == ~isSuicide /\ bomb.playerId \in DOMAIN w.players
                     w1 == [w EXCEPT !.players[pid] = Kill(player)]
                     w2 == IF hasKiller
                           THEN [w1 EXCEPT !.players[bomb.playerId].kills = @ + 1]
                           ELSE w1
                     feed == IF isSuicide
                             THEN <<[killer |-> NoPlayer, victim |-> pid, suicide |-> TRUE]>>
                             ELSE IF hasKiller
                                  THEN <<[killer |-> bomb.playerId, victim |-> pid,
                                          suicide |-> FALSE]>>
                                  ELSE <<>>
                     w3 == [w2 EXCEPT !.feed = @ \o feed, !.effect = TRUE]
                 IN IF pid = w.me
                    THEN UpdatePlayerState(w3, w3.players[pid])
                    ELSE IF bomb.playerId = w.me
                         \* NetworkManager.killPlayer: the victim's entry is patched at
                         \* once, the killer's kills after that write is acknowledged
                         THEN [w3 EXCEPT
                                 !.db.players = IF pid \in DOMAIN @
                                                THEN [@ EXCEPT ![pid].alive = FALSE,
                                                               ![pid].deaths = w3.players[pid].deaths]
                                                ELSE @,
                                 !.acks = Append(@, [kind |-> "killerKills",
                                                     kills |-> IF hasKiller
                                                               THEN w3.players[bomb.playerId].kills
                                                               ELSE 0])]
                         ELSE w3

RECURSIVE KillPlayersAt(_, _, _, _, _)
KillPlayersAt(w, bomb, x, y, i) ==
    IF i > Len(PlayerOrder) THEN w
    ELSE KillPlayersAt(KillPlayerAt(w, bomb, x, y, PlayerOrder[i]), bomb, x, y, i + 1)

\* explodeBomb, "Chain reaction": a setTimeout(explodeBomb, 100) per other bomb at the cell
ChainAt(w, bombKey, x, y) ==
    LET hit == SelectSeq(w.bombs, LAMBDA b : b.key # bombKey /\ b.x = x /\ b.y = y)
    IN [w EXCEPT !.chain = @ \o [i \in 1..Len(hit) |-> hit[i].key]]

\* explodeBomb: the body of explosionData.explosions.forEach for one cell
ExplodeCell(w, bomb, bombKey, cell, rolls) ==
    LET x == cell[1]
        y == cell[2]
        w1 == [w EXCEPT !.explosions = Append(@, cell)]
        w2 == IF TileAt(w1.grid, x, y) = Destructible
              THEN LET w2a == [w1 EXCEPT !.grid = SetTile(@, x, y, Empty), !.effect = TRUE]
                   IN IF w.powerupsEnabled /\ cell \in DOMAIN rolls /\ rolls[cell] # "none"
                      THEN SpawnPowerUp(w2a, x, y, rolls[cell])
                      ELSE w2a
              ELSE w1
        w3 == KillPlayersAt(w2, bomb, x, y, 1)
    IN ChainAt(w3, bombKey, x, y)

RECURSIVE ExplodeCellsFrom(_, _, _, _, _, _)
ExplodeCellsFrom(w, bomb, bombKey, cells, i, rolls) ==
    IF i > Len(cells) THEN w
    ELSE LET next == ExplodeCell(w, bomb, bombKey, cells[i], rolls)
         IN IF next.me = w.me
            THEN ExplodeCellsFrom(next, bomb, bombKey, cells, i + 1, rolls)
            ELSE next

\* NetworkManager.triggerExplosion: push() a new entry under gameState/explosions
TriggerExplosion(w, explosionData) ==
    [w EXCEPT !.db.explosions = ObjSet(@, w.nextKey, explosionData),
              !.nextKey = @ + 1]

\* GameManager.explodeBomb, up to its first await.  When the bomb is the local
\* player's, the rest runs when the store acknowledges the writes (AckNext).
ExplodeBomb(w, bombKey, rolls) ==
    IF ~MapHas(w.bombs, bombKey) THEN w
    ELSE LET bomb == MapGet(w.bombs, bombKey)
             cells == ExplodeCells(w.grid, bomb.x, bomb.y, bomb.range)
             explosionData == [id |-> bomb.id, playerId |-> bomb.playerId, explosions |-> cells]
             w0 == [w EXCEPT !.feed = <<>>, !.effect = FALSE]
             w1 == [w0 EXCEPT !.bombs = MapDelete(@, bombKey),
                              !.grid = SetTile(@, bomb.x, bomb.y, Empty)]
             w2 == IF bomb.playerId \in DOMAIN w1.players
                   THEN [w1 EXCEPT !.players[bomb.playerId] = BombExploded(@)]
                   ELSE w1
             w3 == ExplodeCellsFrom(w2, bomb, bombKey, cells, 1, rolls)
             w4 == [w3 EXCEPT
                      !.dets = Append(@, [key |-> bombKey, owner |-> bomb.playerId,
                                          cells |-> cells, before |-> w.players,
                                          after |-> w3.players, feed |-> w3.feed]),
                      !.detonated = ObjSet(@, bombKey, Bump(Count(@, bombKey))),
                      !.applied = IF w3.effect /\ bomb.id # NoId
                                  THEN ObjSet(@, bomb.id, Channels(@, bomb.id) \cup {"fuse"})
                                  ELSE @]
         IN IF bomb.playerId = w.me
            THEN [TriggerExplosion(w4, explosionData) EXCEPT
                    !.acks = Append(@, [kind |-> "afterTrigger", bombKey |-> bombKey,
                                        explosionKey |-> w4.nextKey, id |-> bomb.id])]
            ELSE RememberExplosion(w4, bomb.id)

RECURSIVE ExplodeBombs(_, _, _, _)
ExplodeBombs(w, keys, i, rolls) ==
    IF i > Len(keys) THEN w
    ELSE LET next == ExplodeBomb(w, keys[i], rolls)
         IN IF next.me = w.me THEN ExplodeBombs(next, keys, i + 1, rolls) ELSE next

(***************************************************************************)
(* GameManager.syncGameState: one snapshot gs of the shared game state.    *)
(***************************************************************************)
\* "Sync players from network (except local player)"
SyncPlayer(w, gs, id) ==
    IF id = w.me THEN w
    ELSE IF id \notin DOMAIN w.players
         THEN [w EXCEPT !.players = ObjSet(@, id, gs.players[id])]
         ELSE LET d == gs.players[id]
              IN [w EXCEPT !.players[id] =
                    [@ EXCEPT !.gridX = d.gridX, !.gridY = d.gridY, !.alive = d.alive,
                              !.kills = d.kills, !.deaths = d.deaths, !.speed2 = d.speed2,
                              !.maxBombs = d.maxBombs, !.currentBombs = d.currentBombs,
                              !.bombRange = d.bombRange, !.invincible = d.invincible]]

RECURSIVE SyncPlayers(_, _, _)
SyncPlayers(w, gs, i) ==
    IF i > Len(PlayerOrder) THEN w
    ELSE SyncPlayers(IF PlayerOrder[i] \in DOMAIN gs.players
                     THEN SyncPlayer(w, gs, PlayerOrder[i])
                     ELSE w, gs, i + 1)

\* Bomb.deserialize: an absent range takes the constructor's default
DefaultBombRange == 2

BombDeserialize(key, d) ==
    [key |-> key, id |-> d.id, x |-> d.x, y |-> d.y, playerId |-> d.playerId,
     range |-> IF d.range = 0 THEN DefaultBombRange ELSE d.range, planted |-> d.planted]

\* "Remove bombs that no longer exist on server", for the i-th bomb of the Map
RECURSIVE SyncBombsRemove(_, _, _, _)
SyncBombsRemove(w, gs, old, i) ==
    IF i > Len(old) THEN w
    ELSE LET b == old[i]
         IN IF b.key \in DOMAIN gs.bombs THEN SyncBombsRemove(w, gs, old, i + 1)
            ELSE SyncBombsRemove(
                   [w EXCEPT !.bombs = MapDelete(@, b.key),
                             !.grid = IF InGrid(@, b.x, b.y) /\ TileAt(@, b.x, b.y) = BombOccupied
                                      THEN SetTile(@, b.x, b.y, Empty) ELSE @],
                   gs, old, i + 1)

\* "Add or update bombs from server", for one entry
SyncBomb(w, key, d) ==
    IF ~MapHas(w.bombs, key)
    THEN LET bomb == BombDeserialize(key, d)
         IN [w EXCEPT !.bombs = Append(@, bomb),
                      !.grid = IF InGrid(@, bomb.x, bomb.y)
                               THEN SetTile(@, bomb.x, bomb.y, BombOccupied) ELSE @]
    ELSE LET existing == MapGet(w.bombs, key)
             moved == existing.x # d.x \/ existing.y # d.y
             g1 == IF InGrid(w.grid, existing.x, existing.y)
                      /\ TileAt(w.grid, existing.x, existing.y) = BombOccupied /\ moved
                   THEN SetTile(w.grid, existing.x, existing.y, Empty)
                   ELSE w.grid
             g2 == IF InGrid(g1, d.x, d.y) THEN SetTile(g1, d.x, d.y, BombOccupied) ELSE g1
         IN [w EXCEPT !.bombs = MapSet(@, key, [existing EXCEPT !.x = d.x, !.y = d.y,
                                                  !.range = d.range, !.planted = d.planted]),
                      !.grid = g2]

RECURSIVE SyncBombsAdd(_, _, _, _)
SyncBombsAdd(w, gs, keys, i) ==
    IF i > Len(keys) THEN w
    ELSE SyncBombsAdd(SyncBomb(w, keys[i], gs.bombs[keys[i]]), gs, keys, i + 1)

SyncBombs(w, gs) ==
    IF DOMAIN gs.bombs = {} THEN w
    ELSE SyncBombsAdd(SyncBombsRemove(w, gs, w.bombs, 1), gs, SortedKeys(DOMAIN gs.bombs), 1)

\* PowerUp.deserialize
PowerUpDeserialize(key, d) ==
    [key |-> key, x |-> d.x, y |-> d.y, type |-> d.type, collected |-> FALSE]

\* "Remove collected power-ups"
RECURSIVE SyncPowerUpsRemove(_, _, _, _)
SyncPowerUpsRemove(w, gs, old, i) ==
    IF i > Len(old) THEN w
    ELSE LET pu == old[i]
         IN IF pu.key \in DOMAIN gs.powerups THEN SyncPowerUpsRemove(w, gs, old, i + 1)
            ELSE SyncPowerUpsRemove(
                   [w EXCEPT !.powerups = MapDelete(@, pu.key),
                             !.grid = IF InGrid(@, pu.x, pu.y)
                                      THEN SetTile(@, pu.x, pu.y, Empty) ELSE @],
                   gs, old, i + 1)

\* "Add or update power-ups"
RECURSIVE SyncPowerUpsAdd(_, _, _, _)
SyncPowerUpsAdd(w, gs, keys, i) ==
    IF i > Len(keys) THEN w
    ELSE LET k == keys[i]
             pu == PowerUpDeserialize(k, gs.powerups[k])
         IN SyncPowerUpsAdd(
              IF MapHas(w.powerups, k) THEN w
              ELSE [w EXCEPT !.powerups = Append(@, pu),
                             !.grid = IF InGrid(@, pu.x, pu.y)
                                      THEN SetTile(@, pu.x, pu.y, PowerUpTile) ELSE @],
              gs, keys, i + 1)

SyncPowerUps(w, gs) ==
    IF DOMAIN gs.powerups = {} THEN w
    ELSE SyncPowerUpsAdd(SyncPowerUpsRemove(w, gs, w.powerups, 1), gs,
                         SortedKeys(DOMAIN gs.powerups), 1)

\* "Sync explosions": one blast cell of one explosion entry
SyncExplosionCell(w, cell) ==
    LET x == cell[1]
        y == cell[2]
        w1 == [w EXCEPT !.explosions = Append(@, cell)]
        w2 == IF InGrid(w1.grid, x, y) /\ TileAt(w1.grid, x, y) = Destructible
              THEN [w1 EXCEPT !.grid = SetTile(@, x, y, Empty), !.effect = TRUE]
              ELSE w1
    IN IF w.me \in DOMAIN w2.players
          /\ PlayerIsAt(w2.players[w.me], x, y) /\ KillSucceeds(w2.players[w.me])
       THEN UpdatePlayerState([w2 EXCEPT !.players[w.me] = Kill(@), !.effect = TRUE],
                              Kill(w2.players[w.me]))
       ELSE w2

RECURSIVE SyncExplosionCells(_, _, _)
SyncExplosionCells(w, cells, i) ==
    IF i > Len(cells) THEN w
    ELSE LET next == SyncExplosionCell(w, cells[i])
         IN IF next.me = w.me THEN SyncExplosionCells(next, cells, i + 1) ELSE next

\* the id an explosion entry is known by: its bomb's id, else its push key
ExplosionBombId(key, d) == IF d.id # NoId THEN d.id ELSE key

\* an entry handled without consulting the processed-id set
SyncExplosionAgain(w, key, d) ==
    LET explosionBombId == ExplosionBombId(key, d)
        w2 == SyncExplosionCells(RememberExplosion([w EXCEPT !.effect = FALSE],
                                                   explosionBombId),
                                 d.explosions, 1)
    IN [w2 EXCEPT !.syncLog = Append(@, [id |-> explosionBombId,
                                         known |-> explosionBombId \in w.processedIds,
                                         before |-> w.players, after |-> w2.players,
                                         cells |-> d.explosions,
                                         changed |-> \/ w2.grid # w.grid
                                                     \/ w2.players # w.players
                                                     \/ w2.explosions # w.explosions])]

\* "Sync explosions": one entry of gameState.explosions.  syncLog notes, for
\* the entry, whether its id was already known and whether handling it changed
\* the grid, a player or the list of explosion effects.
SyncExplosion(w, key, d) ==
    LET explosionBombId == ExplosionBombId(key, d)
        w0 == [w EXCEPT !.effect = FALSE]
        w2 == IF explosionBombId \in w.processedIds THEN w0
              ELSE SyncExplosionCells(RememberExplosion(w0, explosionBombId),
                                      d.explosions, 1)
    IN [w2 EXCEPT !.applied = IF w2.effect
                              THEN ObjSet(@, explosionBombId,
                                          Channels(@, explosionBombId) \cup {"sync"})
                              ELSE @,
                  !.syncLog = Append(@, [id |-> explosionBombId,
                                         known |-> explosionBombId \in w.processedIds,
                                         before |-> w.players, after |-> w2.players,
                                         cells |-> d.explosions,
                                         changed |-> \/ w2.grid # w.grid
                                                     \/ w2.players # w.players
                                                     \/ w2.explosions # w.explosions])]

RECURSIVE SyncExplosions(_, _, _, _)
SyncExplosions(w, gs, keys, i) ==
    IF i > Len(keys) THEN w
    ELSE SyncExplosions(SyncExplosion(w, keys[i], gs.explosions[keys[i]]), gs, keys, i + 1)

SyncGameState(w, gs) ==
    LET w1 == SyncPlayers(w, gs, 1)
        w2 == SyncBombs(w1, gs)
        w3 == SyncPowerUps(w2, gs)
    IN SyncExplosions(w3, gs, SortedKeys(DOMAIN gs.explosions), 1)

(***************************************************************************)
(* Local input: movement, kicks, bomb placement, power-up collection.      *)
(***************************************************************************)
DirectionToVector(direction) ==
    CASE direction = "up" -> <<0, -1>>
      [] direction = "down" -> <<0, 1>>
      [] direction = "left" -> <<-1, 0>>
      [] direction = "right" -> <<1, 0>>

\* GameManager.getTile: anything outside the grid reads as a wall
GetTile(grid, x, y) == IF InGrid(grid, x, y) THEN TileAt(grid, x, y) ELSE Wall

\* a roll of one cell that does not look at the tile it rolls onto
RollToBlind(grid, x, y, dx, dy) ==
    IF InGrid(grid, x + dx, y + dy) THEN <<x + dx, y + dy>> ELSE <<x, y>>

\* tryKickBomb: the last cell of the run of empty cells from (x, y) on
RECURSIVE RollTo(_, _, _, _, _)
RollTo(grid, x, y, dx, dy) ==
    IF InGrid(grid, x + dx, y + dy) /\ GetTile(grid, x + dx, y + dy) = Empty
    THEN RollTo(grid, x + dx, y + dy, dx, dy)
    ELSE <<x, y>>

\* NetworkManager.moveBomb: update(gameState/bombs/<id>, {x, y}); a patch of an
\* absent entry creates one holding only the patched fields
MoveBomb(w, bombId, x, y) ==
    [w EXCEPT !.db.bombs =
        IF bombId \in DOMAIN @
        THEN [@ EXCEPT ![bombId].x = x, ![bombId].y = y]
        ELSE ObjSet(@, bombId, [id |-> NoId, x |-> x, y |-> y, playerId |-> NoPlayer,
                                 range |-> 0, planted |-> FALSE])]

\* GameManager.tryKickBomb: <<kicked, world>>
TryKickBomb(w, bombX, bombY, dx, dy) ==
    LET at == SelectSeq(w.bombs, LAMBDA b : b.x = bombX /\ b.y = bombY)
    IN IF Len(at) = 0 THEN <<FALSE, w>>
       ELSE IF ~InGrid(w.grid, bombX + dx, bombY + dy) THEN <<FALSE, w>>
       ELSE LET bomb == at[1]
                final == RollTo(w.grid, bombX, bombY, dx, dy)
            IN IF final = <<bombX, bombY>> THEN <<FALSE, w>>
               ELSE LET g1 == IF TileAt(w.grid, bomb.x, bomb.y) = BombOccupied
                              THEN SetTile(w.grid, bomb.x, bomb.y, Empty)
                              ELSE w.grid
                        g2 == SetTile(g1, final[1], final[2], BombOccupied)
                        w1 == [w EXCEPT !.grid = g2,
                                        !.bombs = MapSet(@, bomb.key,
                                                         [bomb EXCEPT !.x = final[1],
                                                                      !.y = final[2]])]
                    IN <<TRUE, MoveBomb(w1, bomb.id, final[1], final[2])>>

\* Player.move: <<moved, player>>.  settled stands for the player having
\* reached its target position (not mid-movement).
PlayerMove(p, direction, grid, settled) ==
    LET v == DirectionToVector(direction)
    IN IF ~p.alive \/ ~settled THEN <<FALSE, p>>
       ELSE IF CanMoveTo(grid, p.gridX + v[1], p.gridY + v[2])
            THEN <<TRUE, [p EXCEPT !.gridX = @ + v[1], !.gridY = @ + v[2]]>>
            ELSE <<FALSE, p>>

\* the tile the local player faces holds a bomb it is able to kick
KickAhead(w, direction) ==
    LET v == DirectionToVector(direction)
        lp == w.players[w.me]
    IN GetTile(w.grid, lp.gridX + v[1], lp.gridY + v[2]) = BombOccupied /\ lp.canKickBombs

\* GameManager.tryMoveLocalPlayer: <<moved, world>>
TryMoveLocalPlayer(w, direction, settled) ==
    LET v == DirectionToVector(direction)
        lp == w.players[w.me]
        kick == IF KickAhead(w, direction)
                THEN TryKickBomb(w, lp.gridX + v[1], lp.gridY + v[2], v[1], v[2])
                ELSE <<TRUE, w>>
    IN IF ~kick[1] THEN <<FALSE, w>>
       ELSE LET mv == PlayerMove(lp, direction, kick[2].grid, settled)
            IN <<mv[1], [kick[2] EXCEPT !.players[w.me] = mv[2]]>>

\* syncLocalPlayerState without the trailing send
SyncLocalPlayerStateLeading(w, throttled) ==
    IF ~throttled THEN UpdatePlayerState(w, w.players[w.me]) ELSE w

\* GameManager.syncLocalPlayerState; throttled stands for
\* `now - this.lastSyncTime < this.syncDelay`
SyncLocalPlayerState(w, throttled) ==
    IF ~throttled THEN UpdatePlayerState(w, w.players[w.me])
    ELSE IF ~w.pendingSync THEN [w EXCEPT !.pendingSync = TRUE]
    ELSE w

\* GameManager.handleInput; direction "none" stands for no key held or the
\* move delay not yet over
HandleInput(w, direction, settled, throttled) ==
    IF direction = "none" THEN w
    ELSE LET r == TryMoveLocalPlayer(w, direction, settled)
         IN IF r[1]
            THEN SyncLocalPlayerState([r[2] EXCEPT !.moves = @ + 1], throttled)
            ELSE r[2]

\* NetworkManager.placeBomb: set(gameState/bombs/<id>)
NetPlaceBomb(w, bomb) ==
    [w EXCEPT !.db.bombs = ObjSet(@, bomb.id, [id |-> bomb.id, x |-> bomb.x, y |-> bomb.y,
                                               playerId |-> bomb.playerId,
                                               range |-> bomb.range, planted |-> TRUE])]

\* placeBomb without the scan of the bombs for one on the player's cell
PlaceBombAnywhere(w) ==
    LET lp == w.players[w.me]
    IN IF ~CanPlaceBomb(lp) THEN w
       ELSE LET bomb == [key |-> w.nextBomb, id |-> w.nextBomb,
                         x |-> lp.gridX, y |-> lp.gridY, playerId |-> lp.id,
                         range |-> lp.bombRange, planted |-> TRUE]
            IN NetPlaceBomb([w EXCEPT !.players[w.me] = PlayerPlaceBomb(lp),
                                      !.bombs = MapSet(@, bomb.key, bomb),
                                      !.grid = SetTile(@, bomb.x, bomb.y, BombOccupied),
                                      !.nextBomb = @ + 1],
                            bomb)

\* GameManager.placeBomb
PlaceBomb(w) ==
    LET lp == w.players[w.me]
    IN IF ~CanPlaceBomb(lp) THEN w
       ELSE IF \E i \in 1..Len(w.bombs) : w.bombs[i].x = lp.gridX /\ w.bombs[i].y = lp.gridY
            THEN w
            ELSE LET bomb == [key |-> w.nextBomb, id |-> w.nextBomb,
                              x |-> lp.gridX, y |-> lp.gridY, playerId |-> lp.id,
                              range |-> lp.bombRange, planted |-> TRUE]
                 IN NetPlaceBomb([w EXCEPT !.players[w.me] = PlayerPlaceBomb(lp),
                                           !.bombs = MapSet(@, bomb.key, bomb),
                                           !.grid = SetTile(@, bomb.x, bomb.y, BombOccupied),
                                           !.nextBomb = @ + 1],
                                 bomb)

\* checkPowerUpCollection: the body of powerups.forEach for one power-up
CollectPowerUp(w, pu) ==
    LET lp == w.players[w.me]
    IN IF pu.x = lp.gridX /\ pu.y = lp.gridY /\ ~pu.collected
       THEN [w EXCEPT !.players[w.me] = ApplyPowerUp(lp, pu.type),
                      !.grid = SetTile(@, pu.x, pu.y, Empty),
                      !.powerups = MapDelete(@, pu.key),
                      !.db.powerups = ObjDelete(@, pu.key)]
       ELSE w

RECURSIVE CollectPowerUps(_, _, _)
CollectPowerUps(w, pus, i) ==
    IF i > Len(pus) THEN w
    ELSE CollectPowerUps(CollectPowerUp(w, pus[i]), pus, i + 1)

\* GameManager.checkPowerUpCollection
CheckPowerUpCollection(w) ==
    IF ~w.players[w.me].alive THEN w ELSE CollectPowerUps(w, w.powerups, 1)

(***************************************************************************)
(* Specification SpecGame: two connected clients and one idle player in    *)
(* a match that is under way on the small map.                             *)
(***************************************************************************)
Clients == {"p1", "p2"}
Players == {"p1", "p2", "p3"}

SmallWidth == 13
SmallHeight == 11

\* generateGrid: perimeter walls, the inner wall pattern, and crates
GenerateGrid(crates) ==
    [yy \in 1..SmallHeight |->
       [xx \in 1..SmallWidth |->
          LET x == xx - 1
              y == yy - 1
          IN IF x = 0 \/ x = SmallWidth - 1 \/ y = 0 \/ y = SmallHeight - 1 THEN Wall
             ELSE IF x % 2 = 0 /\ y % 2 = 0 /\ x < SmallWidth - 2 /\ y < SmallHeight - 2
                  THEN Wall
             ELSE IF <<x, y>> \in crates THEN Destructible
             ELSE Empty]]

MaxBombs == 2
MaxMoves == 1
MaxExplosions == 2
MaxPowerUps == 1
MaxChain == 1

\* the situations the model picks the match up in: whether the idle player
\* has a bomb planted, and how many bombs (ids), explosion events and moves
\* the run may add
Setups ==
    {[p3Bomb |-> TRUE, bombs |-> MaxBombs, explosions |-> 0, moves |-> 0, powerups |-> MaxPowerUps],
     [p3Bomb |-> FALSE, bombs |-> 1, explosions |-> MaxExplosions, moves |-> 0, powerups |-> MaxPowerUps],
     [p3Bomb |-> FALSE, bombs |-> 1, explosions |-> 1, moves |-> MaxMoves, powerups |-> MaxPowerUps]}

\* the crates still standing
Crates == {<<1, 3>>}

StartAt(id) ==
    CASE id = "p1" -> <<1, 2>>
      [] id = "p2" -> <<1, 4>>
      [] id = "p3" -> <<1, 1>>

InitPlayers == [id \in Players |-> NewPlayer(id, StartAt(id)[1], StartAt(id)[2])]

Pack(c) ==
    [me |-> c, grid |-> cl[c].grid, players |-> cl[c].players, bombs |-> cl[c].bombs,
     powerups |-> cl[c].powerups, processedIds |-> cl[c].processedIds,
     processedOrder |-> cl[c].processedOrder, chain |-> cl[c].chain,
     acks |-> cl[c].acks, pendingSync |-> cl[c].pendingSync,
     expired |-> clock, explTimers |-> cl[c].explTimers, moves |-> ids.moves,
     powerupsEnabled |-> TRUE, explosions |-> <<>>,
     db |-> db, nextBomb |-> ids.nextBomb, nextPow |-> ids.nextPow, nextKey |-> ids.nextKey,
     dets |-> <<>>, syncLog |-> <<>>, feed |-> <<>>, effect |-> FALSE,
     detonated |-> obs[c].detonated, applied |-> obs[c].applied]

\* the players of a roster that a blast over `cells` finds on one of its cells
Standing(players, cells) ==
    {p \in DOMAIN players : <<players[p].gridX, players[p].gridY>> \in SeqToSet(cells)}

\* the players a detonation must kill: on a blast cell, alive, not invincible
Victims(d) ==
    {p \in Standing(d.before, d.cells) : d.before[p].alive /\ ~d.before[p].invincible}

\* kill accounting of one detonation d of explodeBomb
KillAccounting(d) ==
    /\ \A p \in DOMAIN d.before :
          d.after[p].deaths = d.before[p].deaths + (IF p \in Victims(d) THEN 1 ELSE 0)
    /\ \A p \in DOMAIN d.before :
          d.after[p].kills = d.before[p].kills
                             + (IF p = d.owner THEN Cardinality(Victims(d) \ {d.owner}) ELSE 0)
    /\ Victims(d) = {d.owner} =>
          d.feed = <<[killer |-> NoPlayer, victim |-> d.owner, suicide |-> TRUE]>>

\* a blast (a detonation or a synced explosion entry) left the dead and the
\* invincible as they were
SparedKept(d) ==
    \A p \in DOMAIN d.before :
       ~d.before[p].alive \/ d.before[p].invincible =>
          /\ d.after[p].alive = d.before[p].alive
          /\ d.after[p].deaths = d.before[p].deaths

\* what the blasts of a step met: a dead player, an invincible player
Met(blasts, me) ==
    LET hit(d) == IF me = NoPlayer THEN Standing(d.before, d.cells)
                  ELSE Standing(d.before, d.cells) \cap {me}
    IN (IF \E i \in 1..Len(blasts) : \E p \in hit(blasts[i]) : ~blasts[i].before[p].alive
        THEN {"dead"} ELSE {})
       \cup
       (IF \E i \in 1..Len(blasts) : \E p \in hit(blasts[i]) :
              blasts[i].before[p].alive /\ blasts[i].before[p].invincible
        THEN {"invincible"} ELSE {})

Unpack(c, w) ==
    /\ w.nextKey <= setup.explosions + 1
    /\ w.nextPow <= setup.powerups + 1
    /\ Len(w.chain) <= MaxChain
    /\ cl' = [cl EXCEPT ![c] =
                [grid |-> w.grid, players |-> w.players, bombs |-> w.bombs,
                 powerups |-> w.powerups, processedIds |-> w.processedIds,
                 processedOrder |-> w.processedOrder, chain |-> w.chain,
                 acks |-> w.acks, pendingSync |-> w.pendingSync,
                 explTimers |-> w.explTimers]]
    /\ db' = w.db
    /\ ids' = [nextBomb |-> w.nextBomb, nextPow |-> w.nextPow, nextKey |-> w.nextKey,
               moves |-> w.moves]
    /\ obs' = [obs EXCEPT ![c] =
                 [detonated |-> w.detonated, applied |-> w.applied,
                  killsOk |-> \A i \in 1..Len(w.dets) : KillAccounting(w.dets[i]),
                  sparedOk |-> /\ \A i \in 1..Len(w.dets) : SparedKept(w.dets[i])
                               /\ \A i \in 1..Len(w.syncLog) : SparedKept(w.syncLog[i]),
                  syncOk |-> \A i \in 1..Len(w.syncLog) :
                                w.syncLog[i].known => ~w.syncLog[i].changed]]
    /\ seen' = seen \cup Met(w.dets, NoPlayer) \cup Met(w.syncLog, c)
                    \cup (IF \E i \in 1..Len(w.syncLog) : w.syncLog[i].known
                          THEN {"rescan"} ELSE {})
                    \cup (IF \E i \in 1..Len(w.dets) : Victims(w.dets[i]) = {w.dets[i].owner}
                          THEN {"suicide"} ELSE {})
                    \cup (IF \E i \in 1..Len(w.dets) :
                                Victims(w.dets[i]) \ {w.dets[i].owner} # {}
                          THEN {"kills"} ELSE {})
    /\ UNCHANGED setup

\* the idle player's planted bomb
P3Bomb ==
    [key |-> 1, id |-> 1, x |-> StartAt("p3")[1], y |-> StartAt("p3")[2],
     playerId |-> "p3", range |-> DefaultBombRange, planted |-> TRUE]

\* the clients and the shared state at the start of the match
GameWorld ==
    /\ LET players == IF setup.p3Bomb
                      THEN [InitPlayers EXCEPT !["p3"] = PlayerPlaceBomb(@)]
                      ELSE InitPlayers
           grid == IF setup.p3Bomb
                   THEN SetTile(GenerateGrid(Crates), P3Bomb.x, P3Bomb.y, BombOccupied)
                   ELSE GenerateGrid(Crates)
       IN /\ cl = [c \in Clients |->
                     [grid |-> grid, players |-> players,
                      bombs |-> IF setup.p3Bomb THEN <<P3Bomb>> ELSE <<>>,
                      powerups |-> <<>>, processedIds |-> {}, processedOrder |-> <<>>,
                      chain |-> <<>>, acks |-> <<>>, pendingSync |-> FALSE,
                      explTimers |-> {}]]
          /\ db = [players |-> players,
                   bombs |-> IF setup.p3Bomb
                             THEN [k \in {1} |->
                                     [id |-> P3Bomb.id, x |-> P3Bomb.x, y |-> P3Bomb.y,
                                      playerId |-> P3Bomb.playerId, range |-> P3Bomb.range,
                                      planted |-> TRUE]]
                             ELSE <<>>,
                   powerups |-> <<>>, explosions |-> <<>>]
          /\ ids = [nextBomb |-> IF setup.p3Bomb THEN 2 ELSE 1,
                    nextPow |-> 1, nextKey |-> 1, moves |-> 0]
    /\ obs = [c \in Clients |-> [detonated |-> <<>>, applied |-> <<>>,
                                 killsOk |-> TRUE, sparedOk |-> TRUE, syncOk |-> TRUE]]
    /\ clock = {}
    /\ seen = {}

InitGameVars == setup \in Setups /\ GameWorld

InitGame == InitGameVars /\ IdleBomb /\ IdleRoom /\ IdleMore

Dirs == {"up", "down", "left", "right"}
\* PowerUp.randomType, or "none" for no power-up; the model rolls two of the types
RollTypes == {"bomb", "invincible", "none"}

\* Bomb.update over the bombs Map: the keys of the bombs whose fuse has run
\* out, in Map order
DueKeys(w) ==
    LET due == SelectSeq(w.bombs, LAMBDA b : b.planted /\ b.key \in w.expired)
    IN [i \in 1..Len(due) |-> due[i].key]

CrateCells(grid) ==
    {c \in (0..SmallWidth - 1) \X (0..SmallHeight - 1) : TileAt(grid, c[1], c[2]) = Destructible}

RECURSIVE UpdatePlayers(_, _)
UpdatePlayers(w, i) ==
    IF i > Len(PlayerOrder) THEN w
    ELSE UpdatePlayers(IF PlayerOrder[i] \in DOMAIN w.players
                       THEN [w EXCEPT !.players[PlayerOrder[i]] = PlayerUpdate(@)]
                       ELSE w, i + 1)

\* GameManager.update: one frame of the game loop
Update(w, direction, settled, throttled, invOver, rolls) ==
    LET w1 == HandleInput(w, direction, settled, throttled)
        w2 == [w1 EXCEPT !.players[w.me].invPast = @ \/ invOver]
        w3 == UpdatePlayers(w2, 1)
        w5 == ExplodeBombs(w3, DueKeys(w3), 1, rolls)
    IN CheckPowerUpCollection(w5)

Tick(c) ==
    LET w == Pack(c)
        lp == w.players[c]
    IN \E direction \in IF w.moves < setup.moves THEN Dirs \cup {"none"} ELSE {"none"} :
       \E settled \in IF direction # "none" /\ KickAhead(w, direction)
                      THEN BOOLEAN ELSE {TRUE} :
       \E invOver \in IF lp.invincible /\ ~lp.invPast THEN BOOLEAN ELSE {FALSE} :
       \E rolls \in IF Len(DueKeys(w)) = 0
                    THEN {<<>>}
                    ELSE [CrateCells(w.grid) -> RollTypes] :
          Unpack(c, Update(w, direction, settled, FALSE, invOver, rolls))
          /\ UNCHANGED <<bombVars, roomVars, moreVars, clock>>

PlaceBombKey(c) ==
    /\ ids.nextBomb <= setup.bombs
    /\ PlaceBomb(Pack(c)).bombs # cl[c].bombs
    /\ Unpack(c, PlaceBomb(Pack(c)))
    /\ UNCHANGED <<bombVars, roomVars, moreVars, clock>>

\* the gameState listener of client c delivers the current shared state
Snapshot(c) ==
    /\ Unpack(c, SyncGameState(Pack(c), db))
    /\ UNCHANGED <<bombVars, roomVars, moreVars, clock>>

\* the continuation of an awaited store write of client c runs
Continue(w) ==
    LET a == Head(w.acks)
        w1 == [w EXCEPT !.acks = Tail(@)]
    IN CASE a.kind = "afterTrigger" ->
              \* triggerExplosion arms its removal timer; explodeBomb goes on to removeBomb
              [w1 EXCEPT !.explTimers = @ \cup {a.explosionKey},
                         !.db.bombs = ObjDelete(@, a.bombKey),
                         !.acks = Append(@, [kind |-> "afterRemove", id |-> a.id])]
         [] a.kind = "afterRemove" ->
              RememberExplosion(w1, a.id)
         [] a.kind = "killerKills" ->
              \* killPlayer: update(gameState/players/<killer>, {kills})
              [w1 EXCEPT !.db.players[w.me].kills = a.kills]

AckNext(c) ==
    /\ Len(cl[c].acks) > 0
    /\ Unpack(c, Continue(Pack(c)))
    /\ UNCHANGED <<bombVars, roomVars, moreVars, clock>>

\* triggerExplosion's setTimeout(remove(explosionRef), 1000)
ExplosionTimer(c) ==
    \E key \in cl[c].explTimers :
       /\ Unpack(c, [Pack(c) EXCEPT !.explTimers = @ \ {key},
                                    !.db.explosions = ObjDelete(@, key)])
       /\ UNCHANGED <<bombVars, roomVars, moreVars, clock>>

\* explodeBomb's setTimeout(() => this.explodeBomb(otherId), 100)
ChainFire(c) ==
    /\ Len(cl[c].chain) > 0
    /\ LET w == [Pack(c) EXCEPT !.chain = Tail(@)]
       IN \E rolls \in IF MapHas(w.bombs, Head(cl[c].chain))
                       THEN [CrateCells(w.grid) -> RollTypes] ELSE {<<>>} :
             Unpack(c, ExplodeBomb(w, Head(cl[c].chain), rolls))
    /\ UNCHANGED <<bombVars, roomVars, moreVars, clock>>

\* the fuse of a planted bomb runs out (Bomb.update: elapsed >= timer)
FuseExpires ==
    \E k \in DOMAIN db.bombs \ clock :
       /\ db.bombs[k].planted
       /\ clock' = clock \cup {k}
       /\ UNCHANGED <<bombVars, roomVars, moreVars, cl, db, ids, obs, seen, setup>>

NextGame ==
    \/ FuseExpires
    \/ \E c \in Clients :
       \/ Tick(c)
       \/ PlaceBombKey(c)
       \/ Snapshot(c)
       \/ AckNext(c)
       \/ ExplosionTimer(c)
       \/ ChainFire(c)

SpecGame == InitGame /\ [][NextGame]_vars

(***************************************************************************)
(* C2: handling a snapshot explosion entry whose id is already in the      *)
(* client's processed-id set changes nothing: no tile is destroyed, no     *)
(* player is killed and no explosion effect is added.                      *)
(***************************************************************************)
C2_KnownExplosionIgnored == \A c \in Clients : obs[c].syncOk

C2_Witness == "rescan" \in seen

(***************************************************************************)
(* C3: on one client, the tile destructions and kills of one bomb id are   *)
(* applied through at most one of the two channels, the client's own       *)
(* detonation (explodeBomb) and the synced explosion entry.                *)
(***************************************************************************)
C3_OneChannel ==
    \A c \in Clients : \A id \in DOMAIN obs[c].applied :
       Cardinality(obs[c].applied[id]) <= 1

(***************************************************************************)
(* C4: on each client every bomb id detonates at most once.                *)
(***************************************************************************)
C4_DetonatesOnce ==
    \A c \in Clients : \A k \in DOMAIN obs[c].detonated : obs[c].detonated[k] <= 1

(***************************************************************************)
(* C5: in every detonation each alive, non-invincible player on a blast    *)
(* cell gets deaths + 1 and nobody else's deaths change; the owner's kills *)
(* grow by the number of victims other than the owner and nobody else's    *)
(* kills change; a detonation whose only victim is the owner is reported   *)
(* as one self-elimination entry of the kill feed.                         *)
(***************************************************************************)
C5_KillAccounting == \A c \in Clients : obs[c].killsOk

C5_Witness == {"suicide", "kills"} \subseteq seen

(***************************************************************************)
(* C6: Player.kill on a dead or invincible player returns false and        *)
(* changes nothing, and no blast, detonated locally or synced, raises the  *)
(* deaths of a player who is dead or invincible when it strikes.           *)
(***************************************************************************)
C6_DeadOrInvincibleSpared ==
    \A c \in Clients :
       /\ obs[c].sparedOk
       /\ \A p \in DOMAIN cl[c].players :
             ~cl[c].players[p].alive \/ cl[c].players[p].invincible =>
                ~KillSucceeds(cl[c].players[p]) /\ Kill(cl[c].players[p]) = cl[c].players[p]

C6_Witness == {"dead", "invincible"} \subseteq seen

(***************************************************************************)
(* C7: the local player's currentBombs stays within 0..maxBombs.           *)
(***************************************************************************)
C7_CurrentBombsInRange ==
    \A c \in Clients :
       /\ 0 <= cl[c].players[c].currentBombs
       /\ cl[c].players[c].currentBombs <= cl[c].players[c].maxBombs

\* a client's own bomb has detonated twice and its counter rests at 0
C7_Witness ==
    \E c \in Clients : \E k \in DOMAIN obs[c].detonated :
       /\ obs[c].detonated[k] >= 2
       /\ k \in DOMAIN db.bombs /\ db.bombs[k].playerId = c
       /\ cl[c].players[c].currentBombs = 0

(***************************************************************************)
(* C24: placeBomb of a client changes nothing (no bomb, currentBombs as    *)
(* before, no write to the shared state) when the client's store holds a   *)
(* bomb on the local player's cell, when the local player is dead, or when *)
(* its currentBombs equals its maxBombs; and a bomb it does plant lies on  *)
(* the local player's cell, which held no bomb of the store.               *)
(***************************************************************************)
BombsOn(w, x, y) == {i \in 1..Len(w.bombs) : w.bombs[i].x = x /\ w.bombs[i].y = y}

BombGridSize == 8
BombMaxRange == 3

OpenGrid(n) == [y \in 1..n |-> [x \in 1..n |-> Empty]]

\* an obstacle is <<x, y, tile>>, or <<>> for none
ObstacleChoices(bx, by) ==
    {<<>>} \cup
    {<<x, by, t>> : x \in (0..(BombGridSize - 1)) \ {bx}, t \in {Wall, Destructible, PowerUpTile}} \cup
    {<<bx, y, t>> : y \in (0..(BombGridSize - 1)) \ {by}, t \in {Wall, Destructible}}

WithObstacle(grid, o) == IF o = <<>> THEN grid ELSE SetTile(grid, o[1], o[2], o[3])

InitBomb ==
    /\ \E bx \in 0..(BombGridSize - 1), by \in 0..(BombGridSize - 1), r \in 1..BombMaxRange :
         /\ bBomb = [x |-> bx, y |-> by, range |-> r]
         /\ \E o1 \in ObstacleChoices(bx, by), o2 \in ObstacleChoices(bx, by) :
              bGrid = WithObstacle(WithObstacle(OpenGrid(BombGridSize), o1), o2)
    /\ bResult = <<>>
    /\ bDone = FALSE
    /\ IdleGame /\ IdleRoom /\ IdleMore

BombExplode ==
    /\ ~bDone
    /\ bResult' = ExplodeCells(bGrid, bBomb.x, bBomb.y, bBomb.range)
    /\ bDone' = TRUE
    /\ UNCHANGED <<bGrid, bBomb, gameVars, roomVars, moreVars>>

NextBomb == BombExplode

SpecBomb == InitBomb /\ [][NextBomb]_vars

(***************************************************************************)
(* C8: Bomb.explode returns the bomb's own cell plus, in each of the four  *)
(* cardinal directions, the cells at distance 1..range up to and including *)
(* the first destructible cell and excluding the first wall or             *)
(* out-of-bounds cell and everything beyond either; the cells are          *)
(* distinct, an unobstructed bomb yields exactly 4 * range + 1 of them,    *)
(* and a bomb at (5,5) with range 2 yields the nine cells of Scenario B.   *)
(***************************************************************************)
BlastReaches(grid, x, y, dx, dy, i) ==
    /\ InGrid(grid, x + dx * i, y + dy * i)
    /\ TileAt(grid, x + dx * i, y + dy * i) # Wall
    /\ \A j \in 1..(i - 1) :
         /\ InGrid(grid, x + dx * j, y + dy * j)
         /\ TileAt(grid, x + dx * j, y + dy * j) \notin {Wall, Destructible}

BlastSet(grid, x, y, range) ==
    {<<x, y>>} \cup
    {<<x + d[1] * i, y + d[2] * i>> :
        <<d, i>> \in {di \in {<<0, -1>>, <<0, 1>>, <<-1, 0>>, <<1, 0>>} \X (1..range) :
                        BlastReaches(grid, x, y, di[1][1], di[1][2], di[2])}}

Unobstructed(grid, x, y, range) ==
    \A d \in {<<0, -1>>, <<0, 1>>, <<-1, 0>>, <<1, 0>>}, i \in 1..range :
        /\ InGrid(grid, x + d[1] * i, y + d[2] * i)
        /\ TileAt(grid, x + d[1] * i, y + d[2] * i) \notin {Wall, Destructible}

ScenarioBCells ==
    {<<5, 5>>, <<5, 4>>, <<5, 3>>, <<5, 6>>, <<5, 7>>, <<4, 5>>, <<3, 5>>, <<6, 5>>, <<7, 5>>}

C8_ExplodeCells ==
    bDone =>
        /\ SeqToSet(bResult) = BlastSet(bGrid, bBomb.x, bBomb.y, bBomb.range)
        /\ Cardinality(SeqToSet(bResult)) = Len(bResult)
        /\ bResult[1] = <<bBomb.x, bBomb.y>>
        /\ Unobstructed(bGrid, bBomb.x, bBomb.y, bBomb.range)
             => Len(bResult) = 4 * bBomb.range + 1
        /\ (Unobstructed(bGrid, bBomb.x, bBomb.y, bBomb.range)
              /\ bBomb = [x |-> 5, y |-> 5, range |-> 2])
             => SeqToSet(bResult) = ScenarioBCells

\* Scenario B has been computed, and so has a blast stopped by a crate next to a wall
C8_Witness ==
    /\ bDone
    /\ bBomb = [x |-> 5, y |-> 5, range |-> 2]
    /\ TileAt(bGrid, 6, 5) = Destructible
    /\ TileAt(bGrid, 5, 4) = Wall
    /\ SeqToSet(bResult) = {<<5, 5>>, <<5, 6>>, <<5, 7>>, <<4, 5>>, <<3, 5>>, <<6, 5>>}

(***************************************************************************)
(* The room (network.js room functions, js/lobby.js, js/game.js init,      *)
(* endGame, playAgain).  One room code is modelled.  A room record is the  *)
(* room node of the store: an absent node has exists = FALSE, and a write  *)
(* below an absent node creates it with only the written fields (status    *)
(* "none" and host NoUser stand for undefined).  players maps a user id    *)
(* to the ready flag of its slot.                                          *)
(***************************************************************************)
Users == {"u1", "u2", "u3"}
NoUser == "nobody"
DefaultMaxPlayers == 10
MaxPlayersChoices == {0, 2}
\* the values of maxPlayersSelect the host picks in the waiting room
SettingsChoices == {2, DefaultMaxPlayers}

NoRoom ==
    [exists |-> FALSE, host |-> NoUser, status |-> "none", maxPlayers |-> 0,
     players |-> <<>>]

\* Object.keys(players)[0]: the store returns the keys in ascending order
UserOrder == <<"u1", "u2", "u3">>
FirstKey(S) ==
    UserOrder[CHOOSE i \in 1..Len(UserOrder) :
                 /\ UserOrder[i] \in S
                 /\ \A j \in 1..(i - 1) : UserOrder[j] \notin S]

PlayerCount(r) == Cardinality(DOMAIN r.players)

\* settings.maxPlayers || 10
MaxPlayersOf(r) == IF r.maxPlayers = 0 THEN DefaultMaxPlayers ELSE r.maxPlayers

\* NetworkManager.createRoom: set(roomRef, roomData)
NetCreateRoom(u, maxPlayers) ==
    [exists |-> TRUE, host |-> u, status |-> "waiting", maxPlayers |-> maxPlayers,
     players |-> [x \in {u} |-> FALSE]]

\* the checks of NetworkManager.joinRoom on the room it has read
JoinError(r) ==
    IF ~r.exists THEN "Room not found"
    ELSE IF r.status # "waiting" THEN "Game already in progress"
    ELSE IF PlayerCount(r) >= MaxPlayersOf(r) THEN "Room is full"
    ELSE IF PlayerCount(r) >= 10 THEN "Maximum 10 players allowed"
    ELSE "none"

\* set(playerRef, {... ready: ...})
SetPlayer(r, u, ready) ==
    [r EXCEPT !.exists = TRUE, !.players = ObjSet(r.players, u, ready)]

\* remove(playerRef): the room node stays while it holds any other field
RemovePlayer(r, u) ==
    LET rest == ObjDelete(r.players, u)
    IN IF r.status = "none" /\ r.host = NoUser /\ r.maxPlayers = 0
             /\ DOMAIN rest = {}
       THEN NoRoom
       ELSE [r EXCEPT !.players = rest]

\* update(roomRef, {status: ...}) of startGame, finishGame and resetGame
SetStatus(r, status) == [r EXCEPT !.exists = TRUE, !.status = status]

NetStartGame(r) == SetStatus(r, "playing")

\* NetworkManager.updateRoomSettings: update(settingsRef, settings)
NetUpdateSettings(r, maxPlayers) ==
    [r EXCEPT !.exists = TRUE, !.maxPlayers = maxPlayers]
NetFinishGame(r) == SetStatus(r, "finished")
NetResetStatus(r) == SetStatus(r, "waiting")

\* the rest of resetGame: update(playerRef, {ready: false, ...}) for every
\* slot that get(playersRef) has read
NetResetPlayers(r, read) ==
    IF read = {} THEN r
    ELSE [r EXCEPT !.exists = TRUE,
                   !.players = [x \in DOMAIN r.players \cup read |->
                                  IF x \in read THEN FALSE ELSE r.players[x]]]

\* the rest of NetworkManager.leaveRoom, on the room read after the removal
LeaveCleanup(r, u) ==
    IF ~r.exists THEN r
    ELSE IF DOMAIN r.players = {} THEN NoRoom
    ELSE IF r.host = u THEN [r EXCEPT !.host = FirstKey(DOMAIN r.players)]
    ELSE r

\* startGame without the host test
StartErrorAnyone(cached, u) ==
    IF PlayerCount(cached) < 2 THEN "players"
    ELSE IF \E x \in DOMAIN cached.players : ~cached.players[x] THEN "ready"
    ELSE "none"

\* the checks of LobbyManager.startGame on the room the listener last gave
StartError(cached, u) ==
    IF cached.host # u THEN "host"
    ELSE IF PlayerCount(cached) < 2 THEN "players"
    ELSE IF \E x \in DOMAIN cached.players : ~cached.players[x] THEN "ready"
    ELSE "none"

(***************************************************************************)
(* The users of the room.  page is "home" (the lobby page outside a room), *)
(* "lobby" (the waiting room) or "game" (game.html).  Of the room the lobby *)
(* listener last delivered (currentRoom) a user keeps what startGame makes *)
(* of it (startCheck, "null" before the first delivery), and of the host   *)
(* id the game page read (roomHostId) whether it is the user (isHost).     *)
(* pend is the                                                             *)
(* step of the user's running async function that comes next: a read has   *)
(* been answered, or a write has been issued, and the rest has not run.    *)
(* Leaving a page closes the connection, and the onDisconnect handler      *)
(* registered by createRoom, joinRoom and ensurePlayerInRoom removes the   *)
(* user's slot.                                                            *)
(***************************************************************************)
Idle == [op |-> "none", val |-> FALSE]
Step(op) == [op |-> op, val |-> FALSE]

NewUser ==
    [page |-> "home", startCheck |-> "null", cachedReady |-> FALSE,
     listening |-> FALSE, gameRunning |-> FALSE, over |-> FALSE,
     isHost |-> FALSE, pend |-> Idle, read |-> {}]

InitRoom ==
    /\ room = NoRoom
    /\ users = [u \in Users |-> NewUser]
    /\ IdleBomb /\ IdleGame /\ IdleMore

\* game.html: GameManager.init up to ensurePlayerInRoom
EnterGame(usr) ==
    [usr EXCEPT !.page = "game", !.startCheck = "null", !.listening = FALSE,
                !.gameRunning = FALSE,
                !.over = FALSE, !.isHost = FALSE, !.pend = Step("ensure")]

\* index.html
EnterHome(usr) ==
    [usr EXCEPT !.page = "home", !.startCheck = "null", !.listening = FALSE,
                !.gameRunning = FALSE, !.over = FALSE, !.isHost = FALSE,
                !.pend = Idle]

\* LobbyManager.createRoom
CreateRoom(u) ==
    /\ users[u].page = "home" /\ users[u].pend = Idle
    /\ ~room.exists
    /\ \E m \in MaxPlayersChoices : room' = NetCreateRoom(u, m)
    /\ users' = [users EXCEPT ![u].page = "lobby", ![u].cachedReady = FALSE]
    /\ UNCHANGED <<bombVars, gameVars, moreVars>>

\* LobbyManager.joinRoomByCode, NetworkManager.joinRoom up to its checks
JoinRoom(u) ==
    /\ users[u].page = "home" /\ users[u].pend = Idle
    /\ JoinError(room) = "none"
    /\ users' = [users EXCEPT ![u].pend = Step("join")]
    /\ UNCHANGED room
    /\ UNCHANGED <<bombVars, gameVars, moreVars>>

\* the rest of joinRoom: the slot is written, the waiting room opens
JoinWrite(u) ==
    /\ users[u].pend.op = "join"
    /\ room' = SetPlayer(room, u, FALSE)
    /\ users' = [users EXCEPT ![u].page = "lobby", ![u].cachedReady = FALSE,
                              ![u].pend = Idle]
    /\ UNCHANGED <<bombVars, gameVars, moreVars>>

\* LobbyManager.listenToRoom callback
LobbyListener(u) ==
    /\ users[u].page = "lobby"
    /\ IF ~room.exists
       THEN /\ users' = [users EXCEPT ![u] = EnterHome(@)]
            /\ room' = room
       ELSE IF room.status = "playing" /\ users[u].pend = Idle
       THEN /\ users' = [users EXCEPT ![u] = EnterGame(@)]
            /\ room' = RemovePlayer(room, u)
       ELSE /\ users' = [users EXCEPT ![u].startCheck = StartError(room, u)]
            /\ room' = room
    /\ UNCHANGED <<bombVars, gameVars, moreVars>>

\* NetworkManager.toggleReady up to the answer of its read
ToggleReady(u) ==
    /\ users[u].page = "lobby" /\ users[u].pend = Idle
    /\ u \in DOMAIN room.players
    /\ users' = [users EXCEPT ![u].pend = [op |-> "ready", val |-> ~room.players[u]]]
    /\ UNCHANGED room
    /\ UNCHANGED <<bombVars, gameVars, moreVars>>

ReadyWrite(u) ==
    /\ users[u].pend.op = "ready"
    /\ room' = SetPlayer(room, u, users[u].pend.val)
    /\ users' = [users EXCEPT ![u].cachedReady = users[u].pend.val, ![u].pend = Idle]
    /\ UNCHANGED <<bombVars, gameVars, moreVars>>

\* NetworkManager.leaveRoom up to the removal of the slot
LeaveRoom(u) ==
    /\ users[u].page = "lobby" /\ users[u].pend = Idle
    /\ room' = RemovePlayer(room, u)
    /\ users' = [users EXCEPT ![u].pend = Step("leave")]
    /\ UNCHANGED <<bombVars, gameVars, moreVars>>

\* the rest of leaveRoom and of LobbyManager.leaveRoom
LeaveCheck(u) ==
    /\ users[u].pend.op = "leave"
    /\ room' = LeaveCleanup(room, u)
    /\ users' = [users EXCEPT ![u] = EnterHome(@)]
    /\ UNCHANGED <<bombVars, gameVars, moreVars>>

\* LobbyManager.startGame up to the call of NetworkManager.startGame
LobbyStartGame(u) ==
    /\ users[u].page = "lobby" /\ users[u].pend = Idle
    /\ users[u].startCheck = "none"
    /\ users' = [users EXCEPT ![u].pend = Step("start")]
    /\ UNCHANGED room
    /\ UNCHANGED <<bombVars, gameVars, moreVars>>

\* NetworkManager.startGame, then the redirect to game.html
StartWrite(u) ==
    /\ users[u].pend.op = "start"
    /\ room' = RemovePlayer(NetStartGame(room), u)
    /\ users' = [users EXCEPT ![u] = EnterGame(@)]
    /\ UNCHANGED <<bombVars, gameVars, moreVars>>

\* LobbyManager.updateSettings up to the call of updateRoomSettings: the
\* host of the room the lobby listener last delivered may go on
UpdateSettings(u) ==
    /\ users[u].page = "lobby" /\ users[u].pend = Idle
    /\ users[u].startCheck \notin {"null", "host"}
    /\ users' = [users EXCEPT ![u].pend = Step("settings")]
    /\ UNCHANGED room
    /\ UNCHANGED <<bombVars, gameVars, moreVars>>

\* NetworkManager.updateRoomSettings
SettingsWrite(u) ==
    /\ users[u].pend.op = "settings"
    /\ \E m \in SettingsChoices : room' = NetUpdateSettings(room, m)
    /\ users' = [users EXCEPT ![u].pend = Idle]
    /\ UNCHANGED <<bombVars, gameVars, moreVars>>

\* a user opens game.html?room=<code> directly
OpenGame(u) ==
    /\ users[u].page = "home" /\ users[u].pend = Idle
    /\ users' = [users EXCEPT ![u] = EnterGame(@)]
    /\ UNCHANGED room
    /\ UNCHANGED <<bombVars, gameVars, moreVars>>

\* NetworkManager.ensurePlayerInRoom up to the answers of its reads; then
\* GameManager.init goes on to setupGame and the room listener is attached
EnsurePlayerInRoom(u) ==
    /\ users[u].pend.op = "ensure"
    /\ IF u \in DOMAIN room.players \/ ~room.exists
       THEN users' = [users EXCEPT ![u].pend = Idle, ![u].listening = TRUE]
       ELSE users' = [users EXCEPT ![u].pend = Step("ensureSet")]
    /\ UNCHANGED room
    /\ UNCHANGED <<bombVars, gameVars, moreVars>>

\* the rest of ensurePlayerInRoom: set(playerRef, playerData)
EnsureWrite(u) ==
    /\ users[u].pend.op = "ensureSet"
    /\ room' = SetPlayer(room, u, users[u].cachedReady)
    /\ users' = [users EXCEPT ![u].pend = Idle, ![u].listening = TRUE]
    /\ UNCHANGED <<bombVars, gameVars, moreVars>>

\* GameManager.endGame up to the call of finishGame
EndGame(usr) ==
    IF usr.gameRunning
    THEN [usr EXCEPT !.gameRunning = FALSE, !.pend = Step("finish")]
    ELSE usr

\* GameManager.startGame(room): the match is set up when the local player
\* has a slot and the roster holds two players at least; without a slot
\* the slot is asked for again
GameStart(usr, u, r) ==
    IF usr.gameRunning THEN usr
    ELSE IF u \notin DOMAIN r.players
    THEN [usr EXCEPT !.isHost = (r.host = u), !.pend = Step("ensure")]
    ELSE IF PlayerCount(r) < 2
    THEN [usr EXCEPT !.isHost = (r.host = u)]
    ELSE [usr EXCEPT !.isHost = (r.host = u), !.gameRunning = TRUE]

\* the room listener of GameManager.setupGame
GameListener(u) ==
    /\ users[u].page = "game" /\ users[u].listening /\ users[u].pend = Idle
    /\ IF ~room.exists \/ room.status = "waiting"
       THEN /\ users' = [users EXCEPT ![u] = EnterHome(@)]
            /\ room' = RemovePlayer(room, u)
       ELSE IF room.status = "finished"
       THEN /\ users' = [users EXCEPT ![u] = EndGame(@)]
            /\ room' = room
       ELSE /\ users' = [users EXCEPT ![u] = GameStart(@, u, room)]
            /\ room' = room
    /\ UNCHANGED <<bombVars, gameVars, moreVars>>

\* the match timer runs out or one player is left (updateTimer, checkGameEnd)
MatchOver(u) ==
    /\ users[u].page = "game" /\ users[u].gameRunning /\ users[u].pend = Idle
    /\ users' = [users EXCEPT ![u] = EndGame(@)]
    /\ UNCHANGED room
    /\ UNCHANGED <<bombVars, gameVars, moreVars>>

\* NetworkManager.finishGame, then the game-over screen
FinishWrite(u) ==
    /\ users[u].pend.op = "finish"
    /\ room' = NetFinishGame(room)
    /\ users' = [users EXCEPT ![u].pend = Idle, ![u].over = TRUE]
    /\ UNCHANGED <<bombVars, gameVars, moreVars>>

\* GameManager.playAgain
PlayAgain(u) ==
    /\ users[u].page = "game" /\ users[u].over /\ users[u].pend = Idle
    /\ IF users[u].isHost
       THEN /\ users' = [users EXCEPT ![u].pend = Step("reset")]
            /\ room' = room
       ELSE /\ users' = [users EXCEPT ![u] = EnterHome(@)]
            /\ room' = RemovePlayer(room, u)
    /\ UNCHANGED <<bombVars, gameVars, moreVars>>

\* NetworkManager.resetGame: update(roomRef, {status: 'waiting', ...})
ResetWrite(u) ==
    /\ users[u].pend.op = "reset"
    /\ room' = NetResetStatus(room)
    /\ users' = [users EXCEPT ![u].pend = Step("resetPlayers")]
    /\ UNCHANGED <<bombVars, gameVars, moreVars>>

\* resetGame: get(playersRef) is answered
ResetRead(u) ==
    /\ users[u].pend.op = "resetPlayers"
    /\ users' = [users EXCEPT ![u].pend = Step("resetUpdate"),
                              ![u].read = DOMAIN room.players]
    /\ UNCHANGED room
    /\ UNCHANGED <<bombVars, gameVars, moreVars>>

\* the rest of resetGame, then playAgain's redirect to the lobby
ResetPlayers(u) ==
    /\ users[u].pend.op = "resetUpdate"
    /\ room' = RemovePlayer(NetResetPlayers(room, users[u].read), u)
    /\ users' = [users EXCEPT ![u] = [EnterHome(@) EXCEPT !.read = {}]]
    /\ UNCHANGED <<bombVars, gameVars, moreVars>>

\* GameManager.quitGame
QuitGame(u) ==
    /\ users[u].page = "game" /\ users[u].pend = Idle
    /\ room' = RemovePlayer(room, u)
    /\ users' = [users EXCEPT ![u] = EnterHome(@)]
    /\ UNCHANGED <<bombVars, gameVars, moreVars>>

NextRoom ==
    \E u \in Users :
       \/ CreateRoom(u) \/ JoinRoom(u) \/ JoinWrite(u) \/ LobbyListener(u)
       \/ ToggleReady(u) \/ ReadyWrite(u) \/ LeaveRoom(u) \/ LeaveCheck(u)
       \/ LobbyStartGame(u) \/ StartWrite(u)
       \/ UpdateSettings(u) \/ SettingsWrite(u)
       \/ OpenGame(u) \/ EnsurePlayerInRoom(u) \/ EnsureWrite(u)
       \/ GameListener(u) \/ MatchOver(u) \/ FinishWrite(u)
       \/ PlayAgain(u) \/ ResetWrite(u) \/ ResetRead(u) \/ ResetPlayers(u)
       \/ QuitGame(u)

SpecRoom == InitRoom /\ [][NextRoom]_vars

(***************************************************************************)
(* C1: the room status only ever changes waiting -> playing,               *)
(* playing -> finished and finished -> waiting, whichever users' startGame,*)
(* finishGame and resetGame writes reach the room in whichever order.      *)
(***************************************************************************)
Statuses == {"waiting", "playing", "finished"}

StatusOrder ==
    {<<"waiting", "playing">>, <<"playing", "finished">>, <<"finished", "waiting">>}

C1_StatusTransitions ==
    [][(room.status \in Statuses /\ room'.status \in Statuses
            /\ room'.status # room.status)
        => <<room.status, room'.status>> \in StatusOrder]_vars

(***************************************************************************)
(* C9: the number of player slots of the room never exceeds the room's     *)
(* maxPlayers setting clamped to [2, 10], also when users join at the same *)
(* time or enter through ensurePlayerInRoom.                               *)
(***************************************************************************)
ClampPlayers(m) == IF m < 2 THEN 2 ELSE IF m > 10 THEN 10 ELSE m

C9_RosterWithinCapacity ==
    room.exists => PlayerCount(room) <= ClampPlayers(MaxPlayersOf(room))

(***************************************************************************)
(* C10: the room status changes from waiting to playing only by a start    *)
(* of the host, with at least 2 players in the roster and every one of     *)
(* them ready at the moment of the change.                                 *)
(***************************************************************************)
C10_StartRequiresReadyRoster ==
    [][(room.status = "waiting" /\ room'.status = "playing")
        => \E u \in Users :
              /\ users[u].pend.op = "start" /\ users'[u].pend.op # "start"
              /\ room.host = u
              /\ PlayerCount(room) >= 2
              /\ \A x \in DOMAIN room.players : room.players[x]]_vars

(***************************************************************************)
(* C18: a player slot is added to the roster only while the room status is *)
(* "waiting": a join never adds a slot to the roster of a room whose       *)
(* status is "playing" or "finished".                                      *)
(***************************************************************************)
C18_SlotOnlyWhileWaiting ==
    [][\A u \in Users :
          (/\ users[u].pend.op = "join"
           /\ u \notin DOMAIN room.players /\ u \in DOMAIN room'.players)
             => room.status \notin {"playing", "finished"}]_vars

(***************************************************************************)
(* C19: replay by the host moves the room from "finished" to "waiting",    *)
(* and the step that ends it leaves every roster member's ready flag false *)
(* and the set of roster members as it was.  The host's own slot, which    *)
(* the redirect that ends playAgain drops, is left aside.                  *)
(***************************************************************************)
C19_ReplayResets ==
    [][\A u \in Users :
          /\ (users[u].pend.op = "reset" /\ users'[u].pend.op # "reset")
                => room.status = "finished" /\ room'.status = "waiting"
          /\ (users[u].pend.op = "resetUpdate" /\ users'[u].pend.op # "resetUpdate")
                => /\ DOMAIN room'.players \ {u} = DOMAIN room.players \ {u}
                   /\ \A x \in DOMAIN room'.players : ~room'.players[x]]_vars

(***************************************************************************)
(* C20: whenever a room exists with a non-empty roster and no operation of *)
(* any client is in flight, its host is a current roster member.           *)
(***************************************************************************)
C20_HostInRoster ==
    (/\ room.exists /\ DOMAIN room.players # {}
     /\ \A u \in Users : users[u].pend = Idle)
        => room.host \in DOMAIN room.players

(***************************************************************************)
(* C23: a start, a reset (replay) or a settings change of a client that   *)
(* is not the host of the room at the time its write reaches the database  *)
(* leaves the status and the settings of the room unchanged.  (The lobby   *)
(* checks the host against the room it last received, playAgain against    *)
(* the host id the game page read; the writes of NetworkManager carry no   *)
(* check.)                                                                 *)
(***************************************************************************)
HostWrites == {"start", "reset", "settings"}

C23_NonHostRejected ==
    [][\A u \in Users :
          (/\ room.exists /\ room.host # u
           /\ users[u].pend.op \in HostWrites
           /\ users'[u].pend.op # users[u].pend.op)
             => /\ room'.status = room.status
                /\ room'.maxPlayers = room.maxPlayers]_vars

\* a member of a full, ready, waiting room who is not its host has been
\* refused by the lobby
C23_Witness ==
    \E u \in Users :
        /\ room.exists /\ room.status = "waiting" /\ room.host # u
        /\ room.host \in DOMAIN room.players /\ u \in DOMAIN room.players
        /\ \A x \in DOMAIN room.players : room.players[x]
        /\ users[u].page = "lobby" /\ users[u].pend = Idle
        /\ users[u].startCheck = "host"

(***************************************************************************)
(* The end of a match on one client (game.js checkGameEnd, endGame).       *)
(* endg.players maps the players the client knows to their alive flag.     *)
(* stableAliveCountDuration is counted in frames (the source adds 1/60 per *)
(* frame and compares with 1.5); DwellFrames stands for that threshold.    *)
(* held counts the frames for which the end condition (at most one player  *)
(* alive, at least two players) has held without a break in the client's   *)
(* own players, up to DwellFrames.                                         *)
(***************************************************************************)
DwellFrames == 2

EndLocal == "p1"
EndRemote == {"p2", "p3"}

AliveCount(players) == Cardinality({id \in DOMAIN players : players[id]})

\* alivePlayers.length <= 1 && totalPlayers >= 2
EndCondition(players) ==
    AliveCount(players) <= 1 /\ Cardinality(DOMAIN players) >= 2

\* GameManager.checkGameEnd
CheckGameEnd(e) ==
    IF ~e.gameRunning \/ DOMAIN e.players = {} THEN e
    ELSE LET n == AliveCount(e.players)
             e1 == IF n # e.lastAliveCount
                   THEN [e EXCEPT !.lastAliveCount = n,
                                  !.stableAliveCountDuration = 0,
                                  !.gameEndCheckTimer = FALSE]
                   ELSE [e EXCEPT !.stableAliveCountDuration = Min(DwellFrames, @ + 1)]
         IN IF EndCondition(e1.players) /\ e1.stableAliveCountDuration >= DwellFrames
            THEN [e1 EXCEPT !.gameEndCheckTimer = TRUE]
            ELSE e1

\* GameManager.endGame up to its first await
EndGameNow(e, why) ==
    IF ~e.gameRunning THEN e
    ELSE [e EXCEPT !.gameRunning = FALSE, !.gameEndCheckTimer = FALSE,
                   !.lastAliveCount = 0, !.stableAliveCountDuration = 0,
                   !.ended = why]

\* the frames for which the end condition has held without a break
Held(e, players, frame) ==
    IF ~e.gameRunning THEN e.held
    ELSE IF ~EndCondition(players) THEN 0
    ELSE IF frame THEN Min(DwellFrames, e.held + 1)
    ELSE e.held

InitEnd ==
    /\ \E known \in SUBSET EndRemote :
          endg = [players |-> [id \in known \cup {EndLocal} |-> TRUE],
                  gameRunning |-> TRUE, lastAliveCount |-> 0,
                  stableAliveCountDuration |-> 0, gameEndCheckTimer |-> FALSE,
                  ended |-> "no", held |-> 0]
    /\ IdleBomb /\ IdleGame /\ IdleRoom /\ IdleGen /\ IdleDedup /\ IdleStart /\ IdleSide /\ IdleLate

exceptEnd == <<bombVars, gameVars, roomVars, gen, dedup, start, sideVars, lateVars>>

\* one frame: GameManager.update ends with checkGameEnd
EndFrame ==
    /\ endg.gameRunning
    /\ endg' = [CheckGameEnd(endg) EXCEPT !.held = Held(endg, endg.players, TRUE)]
    /\ UNCHANGED exceptEnd

\* syncGameState (players): a remote player is added or its alive flag is
\* taken from the snapshot
EndSync ==
    /\ \E id \in EndRemote, a \in BOOLEAN :
          LET players == ObjSet(endg.players, id, a)
          IN endg' = [endg EXCEPT !.players = players,
                                  !.held = Held(endg, players, FALSE)]
    /\ UNCHANGED exceptEnd

\* explodeBomb or syncGameState (explosions) kills a player
EndKill ==
    /\ endg.gameRunning
    /\ \E id \in DOMAIN endg.players :
          /\ endg.players[id]
          /\ LET players == [endg.players EXCEPT ![id] = FALSE]
             IN endg' = [endg EXCEPT !.players = players,
                                     !.held = Held(endg, players, FALSE)]
    /\ UNCHANGED exceptEnd

\* the timer armed by checkGameEnd fires: setTimeout(() => this.endGame(), 1000)
EndTimer ==
    /\ endg.gameEndCheckTimer
    /\ endg' = EndGameNow(endg, "alive")
    /\ UNCHANGED exceptEnd

\* the match time runs out or the room is reported finished
EndOther ==
    /\ endg.gameRunning
    /\ endg' = EndGameNow(endg, "other")
    /\ UNCHANGED exceptEnd

NextEnd == EndFrame \/ EndSync \/ EndKill \/ EndTimer \/ EndOther

SpecEnd == InitEnd /\ [][NextEnd]_vars

MaxGenerator == 2

Abs(n) == IF n < 0 THEN 0 - n ELSE n

GenClients == {"a", "b"}

MapTypes == {"small", "medium", "large", "xlarge", "huge", "unknown"}

NoMap == "none"

\* room codes as the sequence of their character codes: "ABCDEF", "ZZ99ZZ"
RoomCodes == {<<65, 66, 67, 68, 69, 70>>, <<90, 90, 57, 57, 90, 90>>}

\* mapSizes[mapType] || mapSizes['medium']
MapSizes(mapType) ==
    CASE mapType = "small" -> [width |-> SmallWidth, height |-> SmallHeight]
      [] mapType = "large" -> [width |-> 19, height |-> 15]
      [] mapType = "xlarge" -> [width |-> 23, height |-> 17]
      [] mapType = "huge" -> [width |-> 27, height |-> 21]
      [] OTHER -> [width |-> 15, height |-> 13]

\* getSpawnPoints: the ten candidates, from the client's current dimensions
GetSpawnPoints(this) ==
    LET w == this.gridWidth
        h == this.gridHeight
    IN { <<1, 1>>, <<w - 2, 1>>, <<1, h - 2>>, <<w - 2, h - 2>>,
         <<w \div 2, 1>>, <<w \div 2, h - 2>>, <<1, h \div 2>>, <<w - 2, h \div 2>>,
         <<w \div 4, h \div 4>>, <<(3 * w) \div 4, (3 * h) \div 4>> }

\* seededRandom: a fixed function of the seed.  The sine is not computed;
\* the value is given in tenths, by one of a family of fixed functions
\* selected by fn, the same on every client.
SeededRandom(seed, fn) == (seed * (2 * fn + 1) + (seed \div 10)) % 10

\* crateChance = 0.7, in tenths
CrateChance == 7

RECURSIVE SumCodes(_)
SumCodes(code) == IF code = <<>> THEN 0 ELSE Head(code) + SumCodes(Tail(code))

\* the wall pattern: the border, and the pillars of the two stepping loops
IsWallCell(x, y, w, h) ==
    \/ x = 0 \/ x = w - 1 \/ y = 0 \/ y = h - 1
    \/ x % 2 = 0 /\ y % 2 = 0 /\ x >= 2 /\ x < w - 2 /\ y >= 2 /\ y < h - 2

\* seed++ runs once for every empty interior cell, in row-major order: the
\* seed used at an empty cell is the base seed plus the number of empty
\* interior cells up to and including it
EmptyInRow(y, w, h) == IF y % 2 = 0 /\ y >= 2 /\ y < h - 2
                       THEN (w - 2) - Cardinality({x \in 2..(w - 3) : x % 2 = 0})
                       ELSE w - 2

RECURSIVE EmptyAbove(_, _, _)
EmptyAbove(y, w, h) == IF y <= 1 THEN 0 ELSE EmptyInRow(y - 1, w, h) + EmptyAbove(y - 1, w, h)

SeedAt(base, x, y, w, h) ==
    base + EmptyAbove(y, w, h)
         + Cardinality({xx \in 1..x : ~IsWallCell(xx, y, w, h)})

InSafeZone(x, y, zones) ==
    \E s \in zones : Abs(x - s[1]) <= 1 /\ Abs(y - s[2]) <= 1

\* a generator that takes the safe zones from the dimensions the client had
\* before the call
GenerateGridStaleZones(this, mapType, fn) ==
    LET size == MapSizes(mapType)
        w == size.width
        h == size.height
        zones == GetSpawnPoints(this)
        base == SumCodes(this.roomCode)
        grid == [yy \in 1..h |-> [xx \in 1..w |->
                   LET x == xx - 1
                       y == yy - 1
                   IN IF IsWallCell(x, y, w, h) THEN Wall
                      ELSE IF ~InSafeZone(x, y, zones)
                              /\ SeededRandom(SeedAt(base, x, y, w, h), fn) < CrateChance
                           THEN Destructible
                      ELSE Empty]]
    IN [this EXCEPT !.gridWidth = w, !.gridHeight = h, !.grid = grid, !.mapType = mapType]

\* a generator without the safe zones
GenerateGridNoZones(this, mapType, fn) ==
    LET size == MapSizes(mapType)
        w == size.width
        h == size.height
        base == SumCodes(this.roomCode)
        grid == [yy \in 1..h |-> [xx \in 1..w |->
                   LET x == xx - 1
                       y == yy - 1
                   IN IF IsWallCell(x, y, w, h) THEN Wall
                      ELSE IF SeededRandom(SeedAt(base, x, y, w, h), fn) < CrateChance
                           THEN Destructible
                      ELSE Empty]]
    IN [this EXCEPT !.gridWidth = w, !.gridHeight = h, !.grid = grid, !.mapType = mapType]

\* generateGrid(mapType) on a client: dimensions first, then the walls, then
\* the seeded crates outside the safe zones of the new dimensions
GenerateGridSeeded(this, mapType, fn) ==
    LET size == MapSizes(mapType)
        sized == [this EXCEPT !.gridWidth = size.width, !.gridHeight = size.height]
        w == sized.gridWidth
        h == sized.gridHeight
        zones == GetSpawnPoints(sized)
        base == SumCodes(sized.roomCode)
        grid == [yy \in 1..h |-> [xx \in 1..w |->
                   LET x == xx - 1
                       y == yy - 1
                   IN IF IsWallCell(x, y, w, h) THEN Wall
                      ELSE IF ~InSafeZone(x, y, zones)
                              /\ SeededRandom(SeedAt(base, x, y, w, h), fn) < CrateChance
                           THEN Destructible
                      ELSE Empty]]
    IN [sized EXCEPT !.grid = grid, !.mapType = mapType]

\* the GameManager constructor: no grid, 15 x 13
NewGenClient(code) ==
    [roomCode |-> code, gridWidth |-> 15, gridHeight |-> 13, grid |-> <<>>, mapType |-> NoMap]

InitGen ==
    /\ \E code \in RoomCodes, fn \in 1..MaxGenerator :
          gen = [fn |-> fn, client |-> [c \in GenClients |-> NewGenClient(code)]]
    /\ IdleBomb /\ IdleGame /\ IdleRoom /\ IdleEnd /\ IdleDedup /\ IdleStart /\ IdleSide /\ IdleLate

exceptGen == <<bombVars, gameVars, roomVars, endg, dedup, start, sideVars, lateVars>>

\* one invocation of generateGrid on one client
Generate ==
    /\ \E c \in GenClients, mapType \in MapTypes :
          gen' = [gen EXCEPT !.client[c] = GenerateGridSeeded(@, mapType, gen.fn)]
    /\ UNCHANGED exceptGen

\* the page is loaded again: a new GameManager for the same room
Reload ==
    /\ \E c \in GenClients :
          /\ gen.client[c].mapType # NoMap
          /\ gen' = [gen EXCEPT !.client[c] = NewGenClient(@.roomCode)]
    /\ UNCHANGED exceptGen

NextGen == Generate \/ Reload

SpecGen == InitGen /\ [][NextGen]_vars

(***************************************************************************)
(* C12: generateGrid is deterministic: two clients of the same room whose  *)
(* last invocation had the same map-size setting hold grids that are       *)
(* identical cell for cell, whatever either client generated before.       *)
(***************************************************************************)
C12_GenerateDeterministic ==
    \A c, d \in GenClients :
       (gen.client[c].mapType # NoMap /\ gen.client[c].mapType = gen.client[d].mapType)
          => gen.client[c].grid = gen.client[d].grid

\* both clients hold a huge grid, with crates
C12_Witness ==
    /\ gen.client["a"].mapType = "huge" /\ gen.client["b"].mapType = "huge"
    /\ \E yy \in 1..21, xx \in 1..27 : gen.client["a"].grid[yy][xx] = Destructible

(***************************************************************************)
(* C13: every generated grid has a wall on every border cell and on every  *)
(* interior cell with two even coordinates, and no destructible cell       *)
(* within distance 1 of a spawn candidate.                                 *)
(***************************************************************************)
WellFormedGrid(this) ==
    LET w == this.gridWidth
        h == this.gridHeight
        at(x, y) == this.grid[y + 1][x + 1]
    IN /\ Len(this.grid) = h
       /\ \A y \in 0..(h - 1) : Len(this.grid[y + 1]) = w
       /\ \A x \in 0..(w - 1), y \in 0..(h - 1) :
             /\ (x = 0 \/ y = 0 \/ x = w - 1 \/ y = h - 1) => at(x, y) = Wall
             /\ (x > 0 /\ y > 0 /\ x < w - 1 /\ y < h - 1 /\ x % 2 = 0 /\ y % 2 = 0)
                   => at(x, y) = Wall
             /\ at(x, y) = Destructible
                   => \A s \in GetSpawnPoints(this) :
                         Abs(x - s[1]) > 1 \/ Abs(y - s[2]) > 1

C13_WallsAndSafeSpawns ==
    \A c \in GenClients : gen.client[c].mapType # NoMap => WellFormedGrid(gen.client[c])

\* a small grid with a crate just outside the safe zone of a spawn point
C13_Witness ==
    /\ gen.client["a"].mapType = "small"
    /\ \E x \in 1..(SmallWidth - 2), y \in 1..(SmallHeight - 2) :
          /\ gen.client["a"].grid[y + 1][x + 1] = Destructible
          /\ \E s \in GetSpawnPoints(gen.client["a"]) :
                Abs(x - s[1]) <= 2 /\ Abs(y - s[2]) <= 2

(***************************************************************************)
(* Specification SpecPow: power-up collection.  The match is picked up     *)
(* with one power-up lying between the two clients' players, spawned       *)
(* earlier and already taken over by both clients from the shared state.   *)
(***************************************************************************)
MaxPowMoves == 2

PowCell == <<1, 3>>

InitPow ==
    /\ setup = [p3Bomb |-> FALSE, bombs |-> 0, explosions |-> 0, moves |-> MaxPowMoves, powerups |-> MaxPowerUps]
    /\ \E type \in {"bomb", "range", "kick"} :
          LET grid == SetTile(GenerateGrid({}), PowCell[1], PowCell[2], PowerUpTile)
              data == [x |-> PowCell[1], y |-> PowCell[2], type |-> type]
          IN /\ cl = [c \in Clients |->
                        [grid |-> grid, players |-> InitPlayers, bombs |-> <<>>,
                         powerups |-> <<PowerUpDeserialize(1, data)>>,
                         processedIds |-> {}, processedOrder |-> <<>>,
                         chain |-> <<>>, acks |-> <<>>, pendingSync |-> FALSE,
                         explTimers |-> {}]]
             /\ db = [players |-> InitPlayers, bombs |-> <<>>,
                      powerups |-> [k \in {1} |-> data], explosions |-> <<>>]
    /\ ids = [nextBomb |-> 1, nextPow |-> 2, nextKey |-> 1, moves |-> 0]
    /\ obs = [c \in Clients |-> [detonated |-> <<>>, applied |-> <<>>,
                                 killsOk |-> TRUE, sparedOk |-> TRUE, syncOk |-> TRUE]]
    /\ clock = {}
    /\ seen = {}
    /\ IdleBomb /\ IdleRoom /\ IdleMore

NextPow == \E c \in Clients : Tick(c) \/ Snapshot(c)

SpecPow == InitPow /\ [][NextPow]_vars

\* how many times client c has applied a power-up to its own player
EffectsOn(c) ==
    LET lp == cl[c].players[c]
    IN (lp.maxBombs - InitPlayers[c].maxBombs) + (lp.bombRange - InitPlayers[c].bombRange)

(***************************************************************************)
(* C14: a power-up's effect is applied at most once in total: with one     *)
(* power-up in the match, the clients together apply one effect at most.   *)
(***************************************************************************)
C14_CollectedOnce ==
    EffectsOn("p1") + EffectsOn("p2") <= 1

(***************************************************************************)
(* C26: after a snapshot is applied, the ids of the client's bomb store    *)
(* are the ids of the snapshot's bombs collection and the ids of its       *)
(* power-up store are the ids of the snapshot's power-ups collection -     *)
(* also when the collection is empty.                                      *)
(***************************************************************************)
C26_StoresFollowSnapshot ==
    \A c \in Clients :
       LET applied == SyncGameState(Pack(c), db)
       IN /\ MapKeys(applied.bombs) = DOMAIN db.bombs
          /\ MapKeys(applied.powerups) = DOMAIN db.powerups

(***************************************************************************)
(* C27: after a snapshot is applied, every player the client already knew, *)
(* other than its own, has cell, alive, kills, deaths, speed, maxBombs,    *)
(* currentBombs, bombRange, kick ability and invincibility equal to the    *)
(* snapshot's values for that player.                                      *)
(***************************************************************************)
SyncedFields(p) ==
    <<p.gridX, p.gridY, p.alive, p.kills, p.deaths, p.speed2, p.maxBombs,
      p.currentBombs, p.bombRange, p.canKickBombs, p.invincible>>

C27_RemoteOverwritten ==
    \A c \in Clients :
       LET applied == SyncGameState(Pack(c), db)
       IN \A id \in (DOMAIN cl[c].players \cap DOMAIN db.players) \ {c} :
             SyncedFields(applied.players[id]) = SyncedFields(db.players[id])

(***************************************************************************)
(* Specification SpecDedup: the processed-explosion record of one client,  *)
(* fed with explosion ids by detonations and by snapshots.  hist is the    *)
(* sequence of the ids in the order rememberExplosion added them.          *)
(***************************************************************************)
MaxIds == 66
MaxReplays == 3

InitDedup ==
    /\ dedup = [processedIds |-> {}, processedOrder |-> <<>>, hist |-> <<>>,
                next |-> 1, replays |-> 0, last |-> [id |-> NoId, processed |-> FALSE]]
    /\ IdleBomb /\ IdleGame /\ IdleRoom /\ IdleEnd /\ IdleGen /\ IdleStart /\ IdleSide /\ IdleLate

exceptDedup == <<bombVars, gameVars, roomVars, endg, gen, start, sideVars, lateVars>>

Remembered(d, id) ==
    LET r == RememberExplosion(d, id)
    IN IF r.processedOrder = d.processedOrder THEN r
       ELSE [r EXCEPT !.hist = Append(@, id)]

\* explodeBomb on this client: a new bomb id is remembered
DedupDetonate ==
    /\ dedup.next <= MaxIds
    /\ dedup' = [Remembered(dedup, dedup.next) EXCEPT
                    !.next = @ + 1, !.last = [id |-> NoId, processed |-> FALSE]]
    /\ UNCHANGED exceptDedup

\* syncGameState (explosions): a snapshot carries the explosion of an id
\* seen before; it is skipped if the id is in the set, and else remembered
\* and processed
DedupSync ==
    /\ dedup.replays < MaxReplays
    /\ \E id \in 1..(dedup.next - 1) :
          IF id = NoId \/ id \in dedup.processedIds
          THEN dedup' = [dedup EXCEPT !.replays = @ + 1,
                                      !.last = [id |-> id, processed |-> FALSE]]
          ELSE dedup' = [Remembered(dedup, id) EXCEPT
                            !.replays = @ + 1, !.last = [id |-> id, processed |-> TRUE]]
    /\ UNCHANGED exceptDedup

NextDedup == DedupDetonate \/ DedupSync

SpecDedup == InitDedup /\ [][NextDedup]_vars

\* the last n elements of a sequence
LastOf(s, n) == IF Len(s) <= n THEN s ELSE SubSeq(s, Len(s) - n + 1, Len(s))

(***************************************************************************)
(* C15: the processed set holds at most 64 ids, the set and the order list *)
(* hold the same ids, and the order list is the 64 most recently added     *)
(* ids: after 65 distinct ids exactly the oldest is out of the set; a      *)
(* snapshot is processed again exactly when its id is not in the set.      *)
(***************************************************************************)
C15_BoundedFifo ==
    /\ Cardinality(dedup.processedIds) <= ProcessedCapacity
    /\ dedup.processedIds = SeqToSet(dedup.processedOrder)
    /\ Len(dedup.processedOrder) = Cardinality(dedup.processedIds)
    /\ dedup.processedOrder = LastOf(dedup.hist, ProcessedCapacity)
    /\ Len(dedup.hist) = ProcessedCapacity + 1
          => dedup.processedIds = SeqToSet(dedup.hist) \ {dedup.hist[1]}
    /\ dedup.last.id # NoId =>
          IF dedup.last.processed
          THEN dedup.hist[Len(dedup.hist)] = dedup.last.id
          ELSE dedup.last.id \in dedup.processedIds

\* 65 ids were remembered, the first was evicted, and a snapshot carrying it
\* was processed again
C15_Witness ==
    /\ Len(dedup.hist) > ProcessedCapacity + 1
    /\ dedup.last = [id |-> 1, processed |-> TRUE]
    /\ 1 \in dedup.processedIds

(***************************************************************************)
(* Specification SpecStart: the grid of one match (room status "playing")  *)
(* on the game pages of the host and of one other player.  A grid is       *)
(* "none", "initial" (as generated) or "played" (changed by the match).    *)
(* start.grid is gameState/grid in the store.  generated counts the        *)
(* invocations of generateGrid in the match, adopts the applications of a  *)
(* network grid on the page, replaced tells that one was applied to a      *)
(* client that held a grid.                                                *)
(***************************************************************************)
MaxReloads == 1

StartClients == {"p1", "p2"}

\* room.host
StartHost == "p1"

NoGrid == "none"

NewPage ==
    [grid |-> NoGrid, gameRunning |-> FALSE, isInitializingGame |-> FALSE,
     pend |-> "none", adopts |-> 0]

InitStart ==
    /\ start = [grid |-> NoGrid, generated |-> 0, byOther |-> FALSE, reloads |-> 0,
                client |-> [c \in StartClients |-> NewPage],
                replaced |-> [c \in StartClients |-> FALSE]]
    /\ IdleBomb /\ IdleGame /\ IdleRoom /\ IdleEnd /\ IdleGen /\ IdleDedup /\ IdleSide /\ IdleLate

exceptStart == <<bombVars, gameVars, roomVars, endg, gen, dedup, sideVars, lateVars>>

\* generateGrid on client c
Generated(st, c) ==
    [st EXCEPT !.client[c].grid = "initial",
               !.generated = Min(CountCap, @ + 1),
               !.byOther = @ \/ c # StartHost]

\* applyGridLayout(layout) on client c, layout read from the network
Applied(st, c, layout) ==
    [st EXCEPT !.client[c].grid = layout,
               !.client[c].adopts = Min(CountCap, @ + 1),
               !.replaced[c] = @ \/ st.client[c].grid # NoGrid]

\* startGame from the player entries on: deferred (players data missing, or
\* fewer than two players) or started; the host goes on to initializeGameState
StartRest(st, c, deferred) ==
    IF deferred
    THEN [st EXCEPT !.client[c].isInitializingGame = FALSE, !.client[c].pend = "none"]
    ELSE LET st1 == IF st.client[c].grid = NoGrid THEN Generated(st, c) ELSE st
         IN [st1 EXCEPT !.client[c].gameRunning = TRUE,
                        !.client[c].isInitializingGame = (c = StartHost),
                        !.client[c].pend = IF c = StartHost THEN "init" ELSE "none"]

\* the room listener of a game page delivers the room: startGame(room)
StartGame(c) ==
    /\ ~start.client[c].gameRunning /\ ~start.client[c].isInitializingGame
    /\ IF start.grid = NoGrid
       THEN IF c # StartHost
            THEN UNCHANGED start
            ELSE start' = [Generated(start, c) EXCEPT !.client[c].isInitializingGame = TRUE,
                                                      !.client[c].pend = "grid"]
       ELSE \E deferred \in BOOLEAN :
               start' = StartRest(Applied(start, c, start.grid), c, deferred)
    /\ UNCHANGED exceptStart

\* updateGrid: set(gameState/grid), and startGame goes on
GridWrite(c) ==
    /\ start.client[c].pend = "grid"
    /\ \E deferred \in BOOLEAN :
          start' = StartRest([start EXCEPT !.grid = start.client[c].grid], c, deferred)
    /\ UNCHANGED exceptStart

\* initializeGameState: set(gameState, {players, bombs, powerups, explosions})
InitWrite(c) ==
    /\ start.client[c].pend = "init"
    /\ start' = [start EXCEPT !.grid = NoGrid,
                              !.client[c].pend = "none",
                              !.client[c].isInitializingGame = FALSE]
    /\ UNCHANGED exceptStart

\* the gameState listener delivers: syncGameState (grid)
GridSync(c) ==
    /\ start.grid # NoGrid /\ start.client[c].grid = NoGrid
    /\ start' = Applied(start, c, start.grid)
    /\ UNCHANGED exceptStart

\* the match changes the client's grid (a crate is destroyed)
GridPlayed(c) ==
    /\ start.client[c].gameRunning /\ start.client[c].grid = "initial"
    /\ start' = [start EXCEPT !.client[c].grid = "played"]
    /\ UNCHANGED exceptStart

\* the page is loaded again: a new GameManager
PageReload(c) ==
    /\ start.reloads < MaxReloads
    /\ start.client[c].pend = "none"
    /\ start.client[c] # NewPage
    /\ start' = [start EXCEPT !.client[c] = NewPage, !.reloads = @ + 1]
    /\ UNCHANGED exceptStart

NextStart ==
    \E c \in StartClients :
       \/ StartGame(c)
       \/ GridWrite(c)
       \/ InitWrite(c)
       \/ GridSync(c)
       \/ GridPlayed(c)
       \/ PageReload(c)

SpecStart == InitStart /\ [][NextStart]_vars

(***************************************************************************)
(* C16: within one match generateGrid runs at most once and only on the    *)
(* host's client; a client that is not the host never generates and runs   *)
(* the match only on a grid it adopted.                                    *)
(***************************************************************************)
C16_GeneratedOnceByHost ==
    /\ start.generated <= 1
    /\ ~start.byOther
    /\ \A c \in StartClients \ {StartHost} :
          start.client[c].gameRunning => start.client[c].adopts >= 1

(***************************************************************************)
(* C17: a client takes its grid from the network at most once and only     *)
(* while it has none: no grid read from the network replaces a grid the    *)
(* client (host or not) already holds.                                     *)
(***************************************************************************)
C17_AdoptedOnceWhileEmpty ==
    \A c \in StartClients :
       start.client[c].adopts <= 1 /\ ~start.replaced[c]

(***************************************************************************)
(* Specification SpecDisc: one observing client and the other players of   *)
(* its match.  disc.shared is gameState/players as stored (stale tells     *)
(* that lastUpdate is older than 30 s), disc.local the client's Player     *)
(* objects, disc.marked the players checkDisconnectedPlayers has marked    *)
(* dead.                                                                   *)
(***************************************************************************)
MaxDeaths == 1

Others == {"p2", "p3"}

InitDisc ==
    /\ disc = [shared |-> [p \in Others |->
                             [alive |-> TRUE, deaths |-> 0, disconnected |-> FALSE,
                              stale |-> FALSE]],
               local |-> [p \in Others |-> [alive |-> TRUE, deaths |-> 0]],
               marked |-> {}]
    /\ IdleBomb /\ IdleGame /\ IdleRoom /\ IdleFour /\ IdleChain /\ IdleThr /\ IdleLay /\ IdleLate

exceptDisc == <<bombVars, gameVars, roomVars, endg, gen, dedup, start, chainq, thr, lay, lateVars>>

\* the beforeunload handler of player p: updatePlayerState with disconnected: true
DiscUnload(p) ==
    /\ ~disc.shared[p].disconnected
    /\ disc' = [disc EXCEPT !.shared[p].disconnected = TRUE, !.shared[p].stale = FALSE]
    /\ UNCHANGED exceptDisc

\* 30 s pass without a write to the player's shared state
DiscTimeout(p) ==
    /\ disc.shared[p].disconnected /\ ~disc.shared[p].stale
    /\ disc' = [disc EXCEPT !.shared[p].stale = TRUE]
    /\ UNCHANGED exceptDisc

\* another client's bomb kills p: killPlayer updates alive, deaths, lastUpdate
DiscKilled(p) ==
    /\ disc.shared[p].alive /\ disc.shared[p].deaths < MaxDeaths
    /\ disc' = [disc EXCEPT !.shared[p].alive = FALSE, !.shared[p].deaths = @ + 1,
                            !.shared[p].stale = FALSE]
    /\ UNCHANGED exceptDisc

\* the room listener: checkDisconnectedPlayers(room)
CheckDisconnectedPlayers ==
    /\ LET late == {p \in Others : /\ disc.shared[p].disconnected /\ disc.shared[p].stale
                                  /\ disc.local[p].alive}
       IN /\ late # {}
          /\ disc' = [disc EXCEPT
                        !.local = [p \in Others |->
                                     IF p \in late THEN [@[p] EXCEPT !.alive = FALSE]
                                     ELSE @[p]],
                        !.marked = @ \cup late]
    /\ UNCHANGED exceptDisc

\* the gameState listener: syncGameState (players)
DiscSync ==
    /\ disc' = [disc EXCEPT
                  !.local = [p \in Others |->
                               [alive |-> disc.shared[p].alive,
                                deaths |-> disc.shared[p].deaths]]]
    /\ disc'.local # disc.local
    /\ UNCHANGED exceptDisc

NextDisc ==
    \/ \E p \in Others : DiscUnload(p) \/ DiscTimeout(p) \/ DiscKilled(p)
    \/ CheckDisconnectedPlayers
    \/ DiscSync

SpecDisc == InitDisc /\ [][NextDisc]_vars

(***************************************************************************)
(* C21: a player flagged disconnected for more than 30 s, once marked dead *)
(* on the observing client, remains dead there with its deaths as shared;  *)
(* a player not (or not yet for 30 s) flagged is never marked.             *)
(***************************************************************************)
C21_DisconnectedStaysDead ==
    /\ \A p \in disc.marked :
          (disc.shared[p].disconnected /\ disc.shared[p].stale) => ~disc.local[p].alive
    /\ \A p \in Others :
          (disc.shared[p].alive /\ ~disc.local[p].alive) => p \in disc.marked

(***************************************************************************)
(* Specification SpecChain: the chain detonations of one client around the *)
(* end of its match.  Three bombs lie in a row, each within the blast of   *)
(* its neighbours; bombs 1 and 2 are the local player's, bomb 3 another    *)
(* player's, and a player stands in the blast of bomb 3.  chainq.tasks     *)
(* holds the scheduled explodeBomb calls, chainq.late what a detonation    *)
(* did after the match had ended on this client.                           *)
(***************************************************************************)
ChainBombs == {1, 2, 3}

LocalBombs == {1, 2}

\* the other bombs on the blast cells of bomb b
InBlast(b) == {o \in ChainBombs : o # b /\ Abs(o - b) = 1}

InitChain ==
    /\ chainq = [gameRunning |-> TRUE, bombs |-> ChainBombs, tasks |-> {},
                 victimAlive |-> TRUE, written |-> {}, late |-> {}]
    /\ IdleBomb /\ IdleGame /\ IdleRoom /\ IdleFour /\ IdleDisc /\ IdleThr /\ IdleLay /\ IdleLate

exceptChain == <<bombVars, gameVars, roomVars, endg, gen, dedup, start, disc, thr, lay, lateVars>>

\* explodeBomb(b) on this client
ChainExplode(q, b) ==
    IF b \notin q.bombs THEN q
    ELSE LET kills == b = 3 /\ q.victimAlive
             writes == b \in LocalBombs
         IN [q EXCEPT !.bombs = @ \ {b},
                      !.tasks = @ \cup (InBlast(b) \cap (q.bombs \ {b})),
                      !.victimAlive = @ /\ ~kills,
                      !.written = IF writes THEN @ \cup {b} ELSE @,
                      !.late = IF q.gameRunning THEN @
                               ELSE @ \cup {"explosion"}
                                      \cup (IF kills THEN {"kill"} ELSE {})
                                      \cup (IF writes THEN {"write"} ELSE {})]

\* GameManager.update: the fuse of bomb b has run out
ChainFuse(b) ==
    /\ chainq.gameRunning /\ b \in chainq.bombs
    /\ chainq' = ChainExplode(chainq, b)
    /\ UNCHANGED exceptChain

\* setTimeout(() => this.explodeBomb(otherId), 100) fires
ChainTask(b) ==
    /\ b \in chainq.tasks
    /\ chainq' = ChainExplode([chainq EXCEPT !.tasks = @ \ {b}], b)
    /\ UNCHANGED exceptChain

\* a snapshot without bomb b: the bomb is dropped from the store
ChainSyncRemove(b) ==
    /\ b \in chainq.bombs
    /\ chainq' = [chainq EXCEPT !.bombs = @ \ {b}]
    /\ UNCHANGED exceptChain

\* GameManager.endGame
ChainEndGame ==
    /\ chainq.gameRunning
    /\ chainq' = [chainq EXCEPT !.gameRunning = FALSE]
    /\ UNCHANGED exceptChain

NextChain ==
    \/ \E b \in ChainBombs : ChainFuse(b) \/ ChainTask(b) \/ ChainSyncRemove(b)
    \/ ChainEndGame

SpecChain == InitChain /\ [][NextChain]_vars

(***************************************************************************)
(* C22: after the client has ended the match, no scheduled chain           *)
(* detonation is applied: no bomb explodes, no player is killed and no     *)
(* write is issued by a pending chain task.                                *)
(***************************************************************************)
C22_NoChainAfterEnd ==
    chainq.late = {}

(***************************************************************************)
(* Specification SpecKick: movement, bomb kicks and bomb placement.  The   *)
(* match is picked up with p1 having collected a kick and a bomb power-up  *)
(* earlier (published to the shared state and taken over by the other      *)
(* client), one crate below p2 and one power-up above p1.  No fuse runs    *)
(* out in the run.                                                         *)
(***************************************************************************)
MaxKickMoves == 2
MaxKickBombs == 2

KickCrates == {<<1, 5>>}
KickPowCell == <<1, 1>>

KickPlayers ==
    [InitPlayers EXCEPT !["p1"] = ApplyPowerUp(ApplyPowerUp(@, "kick"), "bomb")]

\* the clients and the shared state of the match as it is picked up
KickWorld(players) ==
    /\ LET grid == SetTile(GenerateGrid(KickCrates), KickPowCell[1], KickPowCell[2],
                           PowerUpTile)
           data == [x |-> KickPowCell[1], y |-> KickPowCell[2], type |-> "range"]
       IN /\ cl = [c \in Clients |->
                     [grid |-> grid, players |-> players, bombs |-> <<>>,
                      powerups |-> <<PowerUpDeserialize(1, data)>>,
                      processedIds |-> {}, processedOrder |-> <<>>,
                      chain |-> <<>>, acks |-> <<>>, pendingSync |-> FALSE,
                      explTimers |-> {}]]
          /\ db = [players |-> players, bombs |-> <<>>,
                   powerups |-> [k \in {1} |-> data], explosions |-> <<>>]
    /\ ids = [nextBomb |-> 1, nextPow |-> 2, nextKey |-> 1, moves |-> 0]
    /\ obs = [c \in Clients |-> [detonated |-> <<>>, applied |-> <<>>,
                                 killsOk |-> TRUE, sparedOk |-> TRUE, syncOk |-> TRUE]]
    /\ clock = {}
    /\ seen = {}
    /\ IdleBomb /\ IdleRoom /\ IdleMore

InitKick ==
    /\ setup = [p3Bomb |-> FALSE, bombs |-> MaxKickBombs, explosions |-> 0,
                moves |-> MaxKickMoves, powerups |-> MaxPowerUps]
    /\ KickWorld(KickPlayers)

NextKick == \E c \in Clients : Tick(c) \/ PlaceBombKey(c) \/ Snapshot(c)

SpecKick == InitKick /\ [][NextKick]_vars

(***************************************************************************)
(* C29: a kick of the bomb on the cell the local player faces succeeds     *)
(* when the cell behind the bomb is Empty: the bomb then lies on the last  *)
(* cell of the longest run of Empty cells behind it, the cell it left is   *)
(* Empty, the cell it reached is BombOccupied and the shared state holds   *)
(* the new position.  When the cell behind the bomb is not Empty or lies   *)
(* outside the grid the kick fails and changes nothing.                    *)
(***************************************************************************)
EmptyRun(grid, x, y, dx, dy) ==
    {n \in 1..(SmallWidth + SmallHeight) :
        \A j \in 1..n : /\ InGrid(grid, x + j * dx, y + j * dy)
                        /\ TileAt(grid, x + j * dx, y + j * dy) = Empty}

Longest(S) == CHOOSE n \in S : \A m \in S : m <= n

C29_KickRolls ==
    \A c \in Clients : \A direction \in Dirs :
       LET w == Pack(c)
           v == DirectionToVector(direction)
           bombX == w.players[c].gridX + v[1]
           bombY == w.players[c].gridY + v[2]
           run == EmptyRun(w.grid, bombX, bombY, v[1], v[2])
           kick == TryKickBomb(w, bombX, bombY, v[1], v[2])
       IN GetTile(w.grid, bombX, bombY) = BombOccupied =>
             /\ run = {} => kick = <<FALSE, w>>
             /\ (run # {} /\ BombsOn(w, bombX, bombY) # {}) =>
                   LET i == CHOOSE i \in BombsOn(w, bombX, bombY) :
                                \A j \in BombsOn(w, bombX, bombY) : i <= j
                       finalX == bombX + Longest(run) * v[1]
                       finalY == bombY + Longest(run) * v[2]
                   IN /\ kick[1]
                      /\ kick[2].bombs[i].x = finalX /\ kick[2].bombs[i].y = finalY
                      /\ \A j \in 1..Len(w.bombs) :
                            j # i => kick[2].bombs[j] = w.bombs[j]
                      /\ TileAt(kick[2].grid, bombX, bombY) = Empty
                      /\ TileAt(kick[2].grid, finalX, finalY) = BombOccupied
                      /\ w.bombs[i].id \in DOMAIN kick[2].db.bombs
                      /\ kick[2].db.bombs[w.bombs[i].id].x = finalX
                      /\ kick[2].db.bombs[w.bombs[i].id].y = finalY

\* p1's bomb has rolled down the column to the cell above the crate, which
\* p1 itself has not come near
C29_Witness ==
    \E k \in DOMAIN db.bombs :
       /\ db.bombs[k].playerId = "p1"
       /\ db.bombs[k].x = 1 /\ db.bombs[k].y = 4
       /\ TileAt(cl["p1"].grid, 1, 4) = BombOccupied
       /\ cl["p1"].players["p1"].gridY <= 2

(***************************************************************************)
(* C30: a move of the local player onto a Wall, a Destructible, a cell     *)
(* outside the grid, or a BombOccupied cell without the kick ability is    *)
(* rejected and leaves the player's cell unchanged; with the kick ability  *)
(* and a BombOccupied destination the player's cell does not change in     *)
(* the step either (a kick is attempted in place of the move).             *)
(***************************************************************************)
C30_MoveRejected ==
    \A c \in Clients : \A direction \in Dirs :
       LET w == Pack(c)
           lp == w.players[c]
           v == DirectionToVector(direction)
           tile == GetTile(w.grid, lp.gridX + v[1], lp.gridY + v[2])
           after == TryMoveLocalPlayer(w, direction, TRUE)[2].players[c]
       IN (\/ tile \in {Wall, Destructible, BombOccupied}
           \/ ~InGrid(w.grid, lp.gridX + v[1], lp.gridY + v[2]))
             => after.gridX = lp.gridX /\ after.gridY = lp.gridY

(***************************************************************************)
(* Specification SpecThr: the throttled publication of the local player    *)
(* (game.js syncLocalPlayerState) on one client.  thr.w holds the local    *)
(* player, the pendingSync flag and the shared players node; elapsed says  *)
(* whether syncDelay has passed since lastSyncTime; timers counts the      *)
(* setTimeout callbacks that are scheduled and have not run.  A burst is   *)
(* up to MaxBurst moves of the local player.                               *)
(***************************************************************************)
MaxBurst == 4

ThrPlayer == "p1"

InitThr ==
    /\ thr = [w |-> [me |-> ThrPlayer,
                     players |-> [id \in {ThrPlayer} |-> NewPlayer(id, 1, 1)],
                     db |-> [players |-> [id \in {ThrPlayer} |-> NewPlayer(id, 1, 1)]],
                     pendingSync |-> FALSE],
              elapsed |-> TRUE, timers |-> 0, moves |-> 0]
    /\ IdleBomb /\ IdleGame /\ IdleRoom /\ IdleFour /\ IdleDisc /\ IdleChain /\ IdleLay /\ IdleLate

exceptThr == <<bombVars, gameVars, roomVars, endg, gen, dedup, start, disc, chainq, lay, lateVars>>

\* handleInput: the local player has moved; syncLocalPlayerState
ThrMove ==
    /\ thr.moves < MaxBurst
    /\ \E v \in {<<1, 0>>, <<0, 1>>} :
          LET moved == [thr.w EXCEPT !.players[ThrPlayer].gridX = @ + v[1],
                                     !.players[ThrPlayer].gridY = @ + v[2]]
              synced == SyncLocalPlayerState(moved, ~thr.elapsed)
          IN thr' = [thr EXCEPT
                       !.w = synced,
                       !.moves = @ + 1,
                       !.elapsed = FALSE,
                       !.timers = IF synced.pendingSync /\ ~moved.pendingSync
                                  THEN @ + 1 ELSE @]
    /\ UNCHANGED exceptThr

\* syncDelay has passed since lastSyncTime
ThrElapse ==
    /\ ~thr.elapsed
    /\ thr' = [thr EXCEPT !.elapsed = TRUE]
    /\ UNCHANGED exceptThr

\* the callback of setTimeout runs, syncDelay after lastSyncTime or later
ThrTimer ==
    /\ thr.timers > 0 /\ thr.elapsed
    /\ thr' = [thr EXCEPT
                 !.w = UpdatePlayerState([@ EXCEPT !.pendingSync = FALSE],
                                         @.players[ThrPlayer]),
                 !.elapsed = FALSE,
                 !.timers = @ - 1]
    /\ UNCHANGED exceptThr

NextThr == ThrMove \/ ThrElapse \/ ThrTimer

SpecThr == InitThr /\ [][NextThr]_vars

\* time passes, and the event loop runs a callback that is due
SpecThrLive == SpecThr /\ WF_vars(ThrElapse) /\ WF_vars(ThrTimer)

Published == thr.w.db.players[ThrPlayer] = thr.w.players[ThrPlayer]

(***************************************************************************)
(* C25: a move that reaches syncLocalPlayerState while sending is          *)
(* throttled and no trailing send is pending schedules one; at most one    *)
(* trailing send is pending at a time; a trailing send that fires          *)
(* publishes the player's state of that moment; and whenever the shared    *)
(* state lags behind the local player, the local player's latest state is  *)
(* eventually published.                                                   *)
(***************************************************************************)
C25_TrailingSend ==
    /\ [](thr.timers <= 1 /\ (thr.w.pendingSync <=> thr.timers = 1))
    /\ [][/\ (thr'.moves # thr.moves /\ ~thr.elapsed) => thr'.timers = 1
          /\ thr'.timers < thr.timers => thr'.w.db.players = thr'.w.players]_vars
    /\ (~Published ~> Published)

\* a trailing send is pending for a state that later moves have overtaken
C25_Witness ==
    /\ thr.timers = 1 /\ thr.w.pendingSync
    /\ thr.w.players[ThrPlayer].gridX + thr.w.players[ThrPlayer].gridY
          >= thr.w.db.players[ThrPlayer].gridX + thr.w.db.players[ThrPlayer].gridY + 2

(***************************************************************************)
(* Specification SpecLay: grid layouts read from the shared state and      *)
(* applied by one client (game.js normalizeGridLayout, applyGridLayout).   *)
(* A layout is absent, a list of rows or an object of rows keyed by row    *)
(* number; a row is a list of values, an object of values keyed by column  *)
(* number, or a value that is neither ("scalar").  A value is a number, a  *)
(* numeric string or null.  lay holds the client's grid and dimensions,    *)
(* the value applyGridLayout returned last (ret), whether the layout it    *)
(* was given last was absent or held an empty or scalar row (bad), and a   *)
(* bit that flips with every call (calls).                                 *)
(***************************************************************************)
MaxLayRows == 2
MaxLayCols == 2

LayVals == {[t |-> "num", v |-> 1], [t |-> "str", v |-> 2], [t |-> "null", v |-> 0]}

\* Number(value ?? 0)
ToNumber(value) == IF value.t = "null" THEN 0 ELSE value.v

\* the index sets of a list of up to max entries, or the key sets of an
\* object with keys below max
LayKeys(kind, max) ==
    CASE kind = "list" -> {1..n : n \in 0..max}
      [] kind = "object" -> SUBSET (0..(max - 1))
      [] OTHER -> {{}}

LayRows ==
    {[kind |-> "scalar", vals |-> <<>>]}
    \cup UNION {{[kind |-> kind, vals |-> r] : r \in [K -> LayVals]} :
                  <<kind, K>> \in {<<k, K>> \in {"list", "object"} \X SUBSET (0..MaxLayCols) :
                                     K \in LayKeys(k, MaxLayCols)}}

\* Object.keys(o).sort(by number).map(key => o[key]); a list is taken as it is
InKeyOrder(kind, o) ==
    IF kind = "list" THEN o
    ELSE LET keys == SortedKeys(DOMAIN o)
         IN [i \in 1..Len(keys) |-> o[keys[i]]]

\* normalizeGridLayout: the callback of rows.map
NormalizeRow(row) ==
    IF row.kind \in {"list", "object"}
    THEN LET vals == InKeyOrder(row.kind, row.vals)
         IN [i \in 1..Len(vals) |-> ToNumber(vals[i])]
    ELSE <<>>

NullLayout == [null |-> TRUE, rows |-> <<>>]

\* a normalizeGridLayout that leaves out the rows it cannot use
NormalizeGridLayoutSkip(layout) ==
    IF layout.kind = "absent" THEN NullLayout
    ELSE LET rows == InKeyOrder(layout.kind, layout.rows)
             normalized == [i \in 1..Len(rows) |-> NormalizeRow(rows[i])]
         IN [null |-> FALSE, rows |-> SelectSeq(normalized, LAMBDA row : Len(row) > 0)]

\* GameManager.normalizeGridLayout
NormalizeGridLayout(layout) ==
    IF layout.kind = "absent" THEN NullLayout
    ELSE LET rows == InKeyOrder(layout.kind, layout.rows)
             normalized == [i \in 1..Len(rows) |-> NormalizeRow(rows[i])]
         IN IF \A i \in 1..Len(normalized) : Len(normalized[i]) > 0
            THEN [null |-> FALSE, rows |-> normalized]
            ELSE NullLayout

\* GameManager.applyGridLayout
ApplyGridLayout(this, layout) ==
    LET normalized == NormalizeGridLayout(layout)
    IN IF normalized.null \/ Len(normalized.rows) = 0
       THEN [this EXCEPT !.ret = FALSE]
       ELSE [this EXCEPT !.gridHeight = Len(normalized.rows),
                         !.gridWidth = Len(normalized.rows[1]),
                         !.grid = normalized.rows,
                         !.ret = TRUE]

\* the layout is absent, or one of its rows is empty or is neither a list
\* nor a keyed object
BadLayout(layout) ==
    \/ layout.kind = "absent"
    \/ \E k \in DOMAIN layout.rows :
          \/ layout.rows[k].kind = "scalar"
          \/ DOMAIN layout.rows[k].vals = {}

InitLay ==
    /\ lay = [grid |-> <<>>, gridWidth |-> 15, gridHeight |-> 13,
              ret |-> FALSE, bad |-> FALSE, calls |-> 0]
    /\ IdleBomb /\ IdleGame /\ IdleRoom /\ IdleFour /\ IdleDisc /\ IdleChain /\ IdleThr /\ IdleLate

exceptLay == <<bombVars, gameVars, roomVars, endg, gen, dedup, start, disc, chainq, thr, lateVars>>

\* startGame or syncGameState hands a layout of the shared state to
\* applyGridLayout
LayApply ==
    /\ \E kind \in {"absent", "list", "object"} :
       \E K \in LayKeys(kind, MaxLayRows) :
       \E rows \in [K -> LayRows] :
          LET layout == [kind |-> kind, rows |-> rows]
          IN lay' = [ApplyGridLayout(lay, layout) EXCEPT !.bad = BadLayout(layout),
                                                         !.calls = 1 - @]
    /\ UNCHANGED exceptLay

NextLay == LayApply

SpecLay == InitLay /\ [][NextLay]_vars

(***************************************************************************)
(* C28: applyGridLayout on a layout that is absent, or holds a row that is *)
(* empty or neither a list nor a keyed object, returns false and leaves    *)
(* grid, gridWidth and gridHeight as they were.                            *)
(***************************************************************************)
C28_BadLayoutRejected ==
    [][(lay'.calls # lay.calls /\ lay'.bad)
          => /\ ~lay'.ret
             /\ lay'.grid = lay.grid
             /\ lay'.gridWidth = lay.gridWidth
             /\ lay'.gridHeight = lay.gridHeight]_vars

\* a layout with an unusable row has been refused by a client that holds a
\* grid applied before
C28_Witness ==
    lay.bad /\ ~lay.ret /\ lay.grid # <<>> /\ lay.gridHeight = Len(lay.grid)

(***************************************************************************)
(* Specification SpecSpawn: the players one client's startGame creates     *)
(* (game.js startGame "Initialize players", getSpawnPoints).  spawn holds  *)
(* the client's grid dimensions, the ordered player entries (ids), the     *)
(* ids for which the shared game state still holds data of an earlier      *)
(* round (stale), and the players Map once startGame has filled it.        *)
(***************************************************************************)
MaxEntries == 11

\* getSpawnPoints, as the list it returns
SpawnPointList(this) ==
    LET w == this.gridWidth
        h == this.gridHeight
    IN << <<1, 1>>, <<w - 2, 1>>, <<1, h - 2>>, <<w - 2, h - 2>>,
          <<w \div 2, 1>>, <<w \div 2, h - 2>>, <<1, h \div 2>>, <<w - 2, h \div 2>>,
          <<w \div 4, h \div 4>>, <<(3 * w) \div 4, (3 * h) \div 4>> >>

\* what gameState.players holds of a player of an earlier round
StaleData(id) ==
    [NewPlayer(id, 2, 3) EXCEPT !.alive = FALSE, !.kills = 3, !.deaths = 2,
                                !.maxBombs = 4, !.canKickBombs = TRUE]

\* Player.reset on a player the constructor has just built
PlayerReset(p, x, y) ==
    [p EXCEPT !.gridX = x, !.gridY = y, !.alive = TRUE, !.invincible = FALSE,
              !.currentBombs = 0, !.kills = 0, !.deaths = 0, !.maxBombs = 1,
              !.bombRange = 2, !.speed2 = 4, !.canKickBombs = FALSE]

\* the callback of playerEntries.forEach that restores whatever the shared
\* game state holds of the player
SpawnPlayerRestore(this, index, id, gameRunning) ==
    LET points == SpawnPointList(this)
        at == points[(index % Len(points)) + 1]
    IN IF id \in this.stale
       THEN LET d == StaleData(id)
            IN [NewPlayer(id, d.gridX, d.gridY) EXCEPT
                  !.alive = d.alive, !.kills = d.kills, !.deaths = d.deaths,
                  !.speed2 = d.speed2, !.maxBombs = d.maxBombs,
                  !.bombRange = d.bombRange, !.canKickBombs = d.canKickBombs]
       ELSE PlayerReset(NewPlayer(id, at[1], at[2]), at[1], at[2])

\* startGame: the callback of playerEntries.forEach for the entry at index
SpawnPlayer(this, index, id, gameRunning) ==
    LET points == SpawnPointList(this)
        at == points[(index % Len(points)) + 1]
    IN IF id \in this.stale /\ gameRunning
       THEN LET d == StaleData(id)
            IN [NewPlayer(id, d.gridX, d.gridY) EXCEPT
                  !.alive = d.alive, !.kills = d.kills, !.deaths = d.deaths,
                  !.speed2 = d.speed2, !.maxBombs = d.maxBombs,
                  !.bombRange = d.bombRange, !.canKickBombs = d.canKickBombs]
       ELSE PlayerReset(NewPlayer(id, at[1], at[2]), at[1], at[2])

\* playerEntries.slice(0, 10)
SliceEntries(entries) == IF Len(entries) > 10 THEN SubSeq(entries, 1, 10) ELSE entries

\* startGame from "Initialize players" on; it runs with gameRunning false
\* (startGame returns at once while the match is running)
InitializePlayers(this) ==
    LET entries == SliceEntries(this.entries)
    IN [this EXCEPT !.list = entries,
                    !.players = [id \in {entries[i] : i \in 1..Len(entries)} |->
                                   LET i == CHOOSE i \in 1..Len(entries) : entries[i] = id
                                   IN SpawnPlayer(this, i - 1, id, FALSE)]]

InitSpawn ==
    /\ \E mapType \in MapTypes, n \in 2..MaxEntries, down \in BOOLEAN,
          stale \in {{}, {1}, {1, 2}} :
          spawn = [gridWidth |-> MapSizes(mapType).width,
                   gridHeight |-> MapSizes(mapType).height,
                   entries |-> [i \in 1..n |-> IF down THEN n + 1 - i ELSE i],
                   stale |-> stale, list |-> <<>>, players |-> <<>>]
    /\ IdleBomb /\ IdleGame /\ IdleRoom /\ IdleFour /\ IdleSide
    /\ IdleColor /\ IdleDefer /\ IdleFin

exceptSpawn == <<bombVars, gameVars, roomVars, endg, gen, dedup, start, sideVars,
                 color, defer, fin>>

\* the room listener calls startGame and the players are created
SpawnStart ==
    /\ spawn.players = <<>>
    /\ spawn' = InitializePlayers(spawn)
    /\ UNCHANGED exceptSpawn

NextSpawn == SpawnStart

SpecSpawn == InitSpawn /\ [][NextSpawn]_vars

(***************************************************************************)
(* C31: at match start the player at index i of the ordered player list    *)
(* stands on candidate i mod 10 of the ten candidates - the four corners,  *)
(* the four edge midpoints and the two diagonal quarter points of the      *)
(* grid, in this order - and is alive with kills = deaths = 0 and the      *)
(* default stats.                                                          *)
(***************************************************************************)
Corners(w, h) == << <<1, 1>>, <<w - 2, 1>>, <<1, h - 2>>, <<w - 2, h - 2>> >>

EdgeMidpoints(w, h) ==
    << <<w \div 2, 1>>, <<w \div 2, h - 2>>, <<1, h \div 2>>, <<w - 2, h \div 2>> >>

QuarterPoints(w, h) == << <<w \div 4, h \div 4>>, <<(3 * w) \div 4, (3 * h) \div 4>> >>

Candidates(w, h) == Corners(w, h) \o EdgeMidpoints(w, h) \o QuarterPoints(w, h)

C31_SpawnByIndex ==
    spawn.players # <<>> =>
       \A i \in 1..Len(spawn.list) :
          LET p == spawn.players[spawn.list[i]]
              at == Candidates(spawn.gridWidth, spawn.gridHeight)[((i - 1) % 10) + 1]
          IN /\ p.gridX = at[1] /\ p.gridY = at[2]
             /\ p.alive /\ p.kills = 0 /\ p.deaths = 0
             /\ p.maxBombs = 1 /\ p.currentBombs = 0 /\ p.bombRange = 2
             /\ p.speed2 = 4 /\ ~p.canKickBombs /\ ~p.invincible

\* ten players have been placed, one of them with data of an earlier round
\* in the shared game state
C31_Witness ==
    /\ spawn.players # <<>> /\ Len(spawn.list) = 10
    /\ spawn.stale # {}
    /\ spawn.players[spawn.list[10]].gridX = (3 * spawn.gridWidth) \div 4

(***************************************************************************)
(* Specification SpecColor: the colorIndex of the roster slots of one      *)
(* waiting room (NetworkManager.createRoom, joinRoom, leaveRoom).          *)
(* color.players is the set of roster members, color.colorIndex the        *)
(* colorIndex each slot holds (0 for a user without a slot), color.joining *)
(* the users whose joinRoom has read the room and not yet written its      *)
(* slot, color.chosen the colorIndex such a joinRoom has computed, and     *)
(* color.raced records that some joinRoom read the room while another      *)
(* one was between its read and its write.                                 *)
(***************************************************************************)
MaxColorUsers == 5

PaletteSize == 4

ColorUsers == 1..MaxColorUsers

\* joinRoom "Find available color index": colorIndex = 0, then the first i
\* of 0..3 that usedColors does not include
FindColorIndex(usedColors) ==
    IF \E i \in 0..(PaletteSize - 1) : i \notin usedColors
    THEN CHOOSE i \in 0..(PaletteSize - 1) :
            i \notin usedColors /\ \A j \in 0..(i - 1) : j \in usedColors
    ELSE 0

InitColor ==
    /\ color = [players |-> {1}, colorIndex |-> [u \in ColorUsers |-> 0],
                joining |-> {}, chosen |-> [u \in ColorUsers |-> 0],
                raced |-> FALSE]
    /\ IdleBomb /\ IdleGame /\ IdleRoom /\ IdleFour /\ IdleSide
    /\ IdleSpawn /\ IdleDefer /\ IdleFin

exceptColor == <<bombVars, gameVars, roomVars, endg, gen, dedup, start, sideVars,
                 spawn, defer, fin>>

\* joinRoom up to its set: the room is read, the checks pass and the
\* colorIndex is computed from the slots of that snapshot
ColorJoinRoom(u) ==
    /\ u \notin color.players /\ u \notin color.joining
    /\ color.players # {}
    /\ Cardinality(color.players) < DefaultMaxPlayers
    /\ color' = [color EXCEPT !.joining = @ \cup {u},
                              !.raced = @ \/ color.joining # {},
                              !.chosen[u] = FindColorIndex({color.colorIndex[v] : v \in color.players})]
    /\ UNCHANGED exceptColor

\* joinRoom: set(playerRef, {..., colorIndex}) lands
ColorJoinWrite(u) ==
    /\ u \in color.joining
    /\ color' = [color EXCEPT !.joining = @ \ {u}, !.players = @ \cup {u},
                              !.colorIndex[u] = color.chosen[u], !.chosen[u] = 0]
    /\ UNCHANGED exceptColor

\* leaveRoom: remove(playerRef); the last member keeps the room in this model
ColorLeaveRoom(u) ==
    /\ u \in color.players /\ Cardinality(color.players) > 1
    /\ color' = [color EXCEPT !.players = @ \ {u}, !.colorIndex[u] = 0]
    /\ UNCHANGED exceptColor

NextColor == \E u \in ColorUsers : ColorJoinRoom(u) \/ ColorJoinWrite(u) \/ ColorLeaveRoom(u)

SpecColor == InitColor /\ [][NextColor]_vars

(***************************************************************************)
(* C33: every player of a room of up to 10 players holds a colorIndex no   *)
(* other roster member holds.  The formula states it for the rooms whose   *)
(* joins never overlapped, so that it is refuted by sequential joins       *)
(* alone.                                                                  *)
(***************************************************************************)
C33_UniqueColor ==
    ~color.raced =>
       \A u \in color.players : \A v \in color.players :
          u # v => color.colorIndex[u] # color.colorIndex[v]

(***************************************************************************)
(* C40: once the host has published the grid, gameState/grid stays in the  *)
(* shared game state as published for the rest of the match (SpecStart     *)
(* has no reset): no later write, the host's initializeGameState included, *)
(* removes or replaces it.                                                 *)
(***************************************************************************)
C40_GridStays == [][start.grid # NoGrid => start'.grid = start.grid]_vars

(***************************************************************************)
(* Specification SpecDead: the match of SpecKick picked up after the       *)
(* player of one client was killed by an earlier blast (Player.kill:       *)
(* alive false, deaths + 1; the cell and the power-ups are kept; p1 holds  *)
(* the kick ability).  The other players go on moving and planting bombs.  *)
(***************************************************************************)
DeadPlayers(victim) == [KickPlayers EXCEPT ![victim] = Kill(@)]

InitDead ==
    /\ setup = [p3Bomb |-> FALSE, bombs |-> MaxKickBombs, explosions |-> 0,
                moves |-> MaxKickMoves, powerups |-> MaxPowerUps]
    /\ \E victim \in Clients : KickWorld(DeadPlayers(victim))

SpecDead == InitDead /\ [][NextKick]_vars

(***************************************************************************)
(* C36: a dead local player can neither move, nor place a bomb, nor kick   *)
(* a bomb: with the local player dead, tryMoveLocalPlayer in any direction *)
(* and placeBomb leave the client's players, bombs and grid and the        *)
(* shared state as they are.                                               *)
(***************************************************************************)
C36_DeadCannotAct ==
    \A c \in Clients :
       LET w == Pack(c)
       IN ~w.players[c].alive =>
             /\ PlaceBomb(w) = w
             /\ \A direction \in Dirs :
                   LET after == TryMoveLocalPlayer(w, direction, TRUE)
                   IN ~after[1] /\ after[2] = w

(***************************************************************************)
(* Specification SpecShare: a match on the grid of SpecKick, picked up     *)
(* when p2 has walked onto the cell of p1 (Player.canMoveTo looks at the   *)
(* tile only, so players share cells); both may plant a bomb and fuses run *)
(* out.                                                                    *)
(***************************************************************************)
MaxShareFuses == 1

SharePlayers ==
    [InitPlayers EXCEPT !["p2"].gridX = InitPlayers["p1"].gridX,
                        !["p2"].gridY = InitPlayers["p1"].gridY]

InitShare ==
    /\ setup = [p3Bomb |-> FALSE, bombs |-> MaxKickBombs, explosions |-> MaxShareFuses,
                moves |-> 0, powerups |-> MaxPowerUps]
    /\ KickWorld(SharePlayers)

SpecShare == InitShare /\ [][NextGame]_vars

(***************************************************************************)
(* C34: on every client the grid occupancy agrees with the bomb store:     *)
(* the cell of every bomb of the store is BombOccupied and every           *)
(* BombOccupied cell holds a bomb of the store.                            *)
(***************************************************************************)
C34_OccupancyAgrees ==
    \A c \in Clients :
       /\ \A i \in 1..Len(cl[c].bombs) :
             TileAt(cl[c].grid, cl[c].bombs[i].x, cl[c].bombs[i].y) = BombOccupied
       /\ \A x \in 0..(SmallWidth - 1) : \A y \in 0..(SmallHeight - 1) :
             TileAt(cl[c].grid, x, y) = BombOccupied => BombsOn(Pack(c), x, y) # {}

(***************************************************************************)
(* Specification SpecTwin: the match of SpecGame with one bomb next to the *)
(* crate, or with the bombs of a chain, in which every client that         *)
(* destroys the crate may spawn a power-up of its own.                     *)
(***************************************************************************)
MaxTwinPowerUps == 2

InitTwin ==
    /\ setup \in {[p3Bomb |-> FALSE, bombs |-> 1, explosions |-> 1, moves |-> 0,
                   powerups |-> MaxTwinPowerUps],
                  [p3Bomb |-> TRUE, bombs |-> MaxBombs, explosions |-> 0, moves |-> 0,
                   powerups |-> MaxTwinPowerUps]}
    /\ GameWorld
    /\ IdleBomb /\ IdleRoom /\ IdleMore

SpecTwin == InitTwin /\ [][NextGame]_vars

(***************************************************************************)
(* C35: no grid cell holds more than one power-up, neither in the shared   *)
(* game state nor in the power-up store of a client, although every        *)
(* client simulates the detonation that destroys the crate.                *)
(***************************************************************************)
C35_OnePowerUpPerCell ==
    /\ \A j \in DOMAIN db.powerups : \A k \in DOMAIN db.powerups :
          db.powerups[j].x = db.powerups[k].x /\ db.powerups[j].y = db.powerups[k].y
             => j = k
    /\ \A c \in Clients :
          \A i \in 1..Len(cl[c].powerups) : \A j \in 1..Len(cl[c].powerups) :
             /\ cl[c].powerups[i].x = cl[c].powerups[j].x
             /\ cl[c].powerups[i].y = cl[c].powerups[j].y
             => i = j

(***************************************************************************)
(* C37: on every client the local player's currentBombs equals the number  *)
(* of bombs of the local player in the client's bomb store, whichever way  *)
(* bombs leave the store (fuse, chain detonation, snapshot deletion).      *)
(***************************************************************************)
OwnBombs(c) == {i \in 1..Len(cl[c].bombs) : cl[c].bombs[i].playerId = c}

C37_CounterMatchesStore ==
    \A c \in Clients : cl[c].players[c].currentBombs = Cardinality(OwnBombs(c))

(***************************************************************************)
(* Specification SpecFin: the end of one match on the game pages of three  *)
(* clients (game.js setupGame room listener, startGame, endGame;           *)
(* NetworkManager.finishGame, updateStats).  fin.status is room.status in  *)
(* the store.  A client's update of the room is visible to its own         *)
(* listeners from the call on (pend = "finish"), to the others once it has *)
(* landed.  finishGame and updateStats count the calls of the page;        *)
(* refused tells that endGame was called after the page had ended the      *)
(* match and returned at once.                                             *)
(***************************************************************************)
FinClients == {"p1", "p2", "p3"}

FinPage ==
    [gameRunning |-> FALSE, isInitializingGame |-> FALSE, pend |-> "none",
     finishGame |-> 0, updateStats |-> 0, refused |-> FALSE]

InitFin ==
    /\ fin = [status |-> "playing", client |-> [c \in FinClients |-> FinPage]]
    /\ IdleBomb /\ IdleGame /\ IdleRoom /\ IdleFour /\ IdleSide
    /\ IdleSpawn /\ IdleColor /\ IdleDefer

exceptFin == <<bombVars, gameVars, roomVars, endg, gen, dedup, start, sideVars,
               spawn, color, defer>>

\* room.status as the listeners of client c see it
FinView(c) ==
    IF fin.client[c].pend = "finish" THEN "finished" ELSE fin.status

\* endGame without its first line
FinEndGameAgain(st, c) ==
    [st EXCEPT !.client[c].gameRunning = FALSE,
               !.client[c].finishGame = Bump(@),
               !.client[c].pend = "finish"]

\* GameManager.endGame up to `await this.network.finishGame(...)`
FinEndGame(st, c) ==
    IF ~st.client[c].gameRunning
    THEN [st EXCEPT !.client[c].refused = @ \/ st.client[c].finishGame > 0]
    ELSE [st EXCEPT !.client[c].gameRunning = FALSE,
                    !.client[c].finishGame = Bump(@),
                    !.client[c].pend = "finish"]

\* the room listener of client c delivers the room
FinRoomListener(c) ==
    /\ fin' = IF FinView(c) = "finished" THEN FinEndGame(fin, c)
              ELSE IF ~fin.client[c].gameRunning /\ ~fin.client[c].isInitializingGame
              THEN [fin EXCEPT !.client[c].isInitializingGame = TRUE]
              ELSE fin
    /\ UNCHANGED exceptFin

\* startGame runs to its end: deferred, or the match runs
FinStartGame(c) ==
    /\ fin.client[c].isInitializingGame
    /\ \E deferred \in BOOLEAN :
          fin' = [fin EXCEPT !.client[c].isInitializingGame = FALSE,
                             !.client[c].gameRunning = ~deferred]
    /\ UNCHANGED exceptFin

\* updateTimer finds no time left, or the timer armed by checkGameEnd fires
FinLocalEnd(c) ==
    /\ fin.client[c].gameRunning
    /\ fin' = FinEndGame(fin, c)
    /\ UNCHANGED exceptFin

\* finishGame's update lands; endGame goes on to updateStats
FinFinishWrite(c) ==
    /\ fin.client[c].pend = "finish"
    /\ fin' = [fin EXCEPT !.status = "finished",
                          !.client[c].pend = "none",
                          !.client[c].updateStats = Bump(@)]
    /\ UNCHANGED exceptFin

NextFin ==
    \E c \in FinClients :
       \/ FinRoomListener(c)
       \/ FinStartGame(c)
       \/ FinLocalEnd(c)
       \/ FinFinishWrite(c)

SpecFin == InitFin /\ [][NextFin]_vars

C38_DeadStaysDead ==
    [][\A p \in DOMAIN db.players :
          ~db.players[p].alive /\ p \in DOMAIN db'.players => ~db'.players[p].alive]_vars

(***************************************************************************)
(* Specification SpecDefer: the start of one match (room status "playing") *)
(* on the game pages of the host and of one other player, both expected    *)
(* (bomberman_expected_players).  defer.grid tells whether gameState/grid  *)
(* is in the store and defer.roster holds the ids with a slot in           *)
(* room.players; a slot is removed by the disconnect hook (when its owner  *)
(* left the lobby page, or when its connection drops) and written again by *)
(* ensurePlayerInRoom.  A page is "loading", then "ensured" (init's        *)
(* ensurePlayerInRoom is done), then "listening".  inbox holds what the    *)
(* store has sent to the page and the page has still to handle, in the     *)
(* order of the store: the room after each write of another client, and    *)
(* the acknowledgement of each awaited write of its own, on which the      *)
(* awaiting startGame goes on.  A page's own update is visible to it from  *)
(* the call on, while its startGame is still awaiting, and is not queued.  *)
(***************************************************************************)
MaxDrops == 1

DeferClients == {"p1", "p2"}

\* room.host
DeferHost == "p1"

DeferPage ==
    [phase |-> "loading", gameRunning |-> FALSE, isInitializingGame |-> FALSE,
     pend |-> "none", landed |-> FALSE, room |-> [grid |-> FALSE, roster |-> {}],
     ensure |-> FALSE, inbox |-> <<>>]

InitDefer ==
    /\ \E roster \in SUBSET DeferClients :
          defer = [grid |-> FALSE, roster |-> roster, drops |-> 0,
                   client |-> [c \in DeferClients |-> DeferPage]]
    /\ IdleBomb /\ IdleGame /\ IdleRoom /\ IdleFour /\ IdleSide
    /\ IdleSpawn /\ IdleColor /\ IdleFin

exceptDefer == <<bombVars, gameVars, roomVars, endg, gen, dedup, start, sideVars,
                 spawn, color, fin>>

\* the room as a listener receives it
RoomSnapshot(st) == [ack |-> FALSE, grid |-> st.grid, roster |-> st.roster]

\* the acknowledgement of an awaited write
WriteAck == [ack |-> TRUE, grid |-> FALSE, roster |-> {}]

\* a write of client `writer` has changed the room: every other listening
\* page is sent the room, and the writer the acknowledgement it awaits
Broadcast(st, writer) ==
    [st EXCEPT !.client =
        [c \in DeferClients |->
           IF c = writer
           THEN [st.client[c] EXCEPT !.inbox = Append(@, WriteAck), !.landed = TRUE]
           ELSE IF st.client[c].phase = "listening"
           THEN [st.client[c] EXCEPT !.inbox = Append(@, RoomSnapshot(st))]
           ELSE st.client[c]]]

\* a write that no startGame awaits has changed the room: every listening
\* page is sent the room
Announce(st) ==
    [st EXCEPT !.client =
        [c \in DeferClients |->
           IF st.client[c].phase = "listening"
           THEN [st.client[c] EXCEPT !.inbox = Append(@, RoomSnapshot(st))]
           ELSE st.client[c]]]

\* startGame from the player entries on, for the room r it was called with:
\* deferred while an expected player has no entry (and the local player asks
\* for its slot again when it is its own entry that is missing), else the
\* players are created and the local player's state is published
PlayerEntries(st, c, r) ==
    IF ~(DeferClients \subseteq r.roster)
    THEN [st EXCEPT !.client[c].isInitializingGame = FALSE,
                    !.client[c].pend = "none",
                    !.client[c].ensure = @ \/ c \notin r.roster]
    ELSE [st EXCEPT !.client[c].isInitializingGame = TRUE,
                    !.client[c].pend = "state"]

\* GameManager.startGame(room) up to its first await
DeferStartGame(st, c, r) ==
    IF st.client[c].gameRunning \/ st.client[c].isInitializingGame THEN st
    ELSE IF ~r.grid
    THEN IF c # DeferHost THEN st
         ELSE [st EXCEPT !.client[c].isInitializingGame = TRUE,
                         !.client[c].pend = "grid",
                         !.client[c].room = r]
    ELSE PlayerEntries(st, c, r)

\* GameManager.init: await ensurePlayerInRoom, which writes a missing slot
DeferInit(c) ==
    /\ defer.client[c].phase = "loading"
    /\ LET st == [defer EXCEPT !.roster = @ \cup {c}, !.client[c].phase = "ensured"]
       IN defer' = IF c \in defer.roster THEN st ELSE Announce(st)
    /\ UNCHANGED exceptDefer

\* setupGame: listenToRoom; the listener is sent the room as it is
DeferListen(c) ==
    /\ defer.client[c].phase = "ensured"
    /\ defer' = [defer EXCEPT !.client[c].phase = "listening",
                              !.client[c].inbox = <<RoomSnapshot(defer)>>]
    /\ UNCHANGED exceptDefer

\* the room listener of client c handles the next snapshot
DeferRoomListener(c) ==
    /\ Len(defer.client[c].inbox) > 0
    /\ ~Head(defer.client[c].inbox).ack
    /\ defer' = DeferStartGame([defer EXCEPT !.client[c].inbox = Tail(@)], c,
                               Head(defer.client[c].inbox))
    /\ UNCHANGED exceptDefer

\* updateGrid(roomCode, grid) reaches the store
DeferGridWrite(c) ==
    /\ defer.client[c].pend = "grid" /\ ~defer.client[c].landed
    /\ defer' = Broadcast([defer EXCEPT !.grid = TRUE], c)
    /\ UNCHANGED exceptDefer

\* updatePlayerState(roomCode, id, state) reaches the store
DeferStateWrite(c) ==
    /\ defer.client[c].pend = "state" /\ ~defer.client[c].landed
    /\ defer' = Broadcast(defer, c)
    /\ UNCHANGED exceptDefer

\* initializeGameState reaches the store: set(gameState, {players, bombs, ...})
DeferInitWrite(c) ==
    /\ defer.client[c].pend = "init" /\ ~defer.client[c].landed
    /\ defer' = Broadcast([defer EXCEPT !.grid = FALSE], c)
    /\ UNCHANGED exceptDefer

\* the awaited write of client c is acknowledged and its startGame goes on:
\* after updateGrid with the player entries of the room it was called with,
\* after updatePlayerState with gameRunning = true (and the host with
\* initializeGameState), after initializeGameState to the finally block
DeferResume(c) ==
    /\ Len(defer.client[c].inbox) > 0
    /\ Head(defer.client[c].inbox).ack
    /\ LET st == [defer EXCEPT !.client[c].inbox = Tail(@),
                               !.client[c].landed = FALSE]
           pend == defer.client[c].pend
       IN defer' =
            IF pend = "grid" THEN PlayerEntries(st, c, defer.client[c].room)
            ELSE IF pend = "state"
            THEN [st EXCEPT !.client[c].gameRunning = TRUE,
                            !.client[c].isInitializingGame = (c = DeferHost),
                            !.client[c].pend = IF c = DeferHost THEN "init" ELSE "none"]
            ELSE [st EXCEPT !.client[c].isInitializingGame = FALSE,
                            !.client[c].pend = "none"]
    /\ UNCHANGED exceptDefer

\* the heartbeat of a running client (setInterval, 2 s): syncLocalPlayerState
\* writes the local player's state, and the other listening pages are sent
\* the room once they have handled what they were sent before
DeferHeartbeat(c) ==
    /\ defer.client[c].gameRunning
    /\ \A d \in DeferClients \ {c} : defer.client[d].inbox = <<>>
    /\ \E d \in DeferClients \ {c} : defer.client[d].phase = "listening"
    /\ defer' = [Announce(defer) EXCEPT !.client[c].inbox = defer.client[c].inbox]
    /\ UNCHANGED exceptDefer

\* ensurePlayerInRoom called by a deferred startGame: a missing slot is set
DeferEnsureWrite(c) ==
    /\ defer.client[c].ensure
    /\ LET st == [defer EXCEPT !.roster = @ \cup {c}, !.client[c].ensure = FALSE]
       IN defer' = IF c \in defer.roster THEN st ELSE Announce(st)
    /\ UNCHANGED exceptDefer

\* the connection of client c drops: onDisconnect(playerRef).remove()
DeferSlotLost(c) ==
    /\ defer.drops < MaxDrops
    /\ defer.client[c].phase = "listening" /\ c \in defer.roster
    /\ defer' = Announce([defer EXCEPT !.roster = @ \ {c}, !.drops = @ + 1])
    /\ UNCHANGED exceptDefer

NextDefer ==
    \E c \in DeferClients :
       \/ DeferInit(c)
       \/ DeferListen(c)
       \/ DeferRoomListener(c)
       \/ DeferGridWrite(c)
       \/ DeferStateWrite(c)
       \/ DeferInitWrite(c)
       \/ DeferResume(c)
       \/ DeferHeartbeat(c)
       \/ DeferEnsureWrite(c)
       \/ DeferSlotLost(c)

SpecDefer == InitDefer /\ [][NextDefer]_vars

\* pages finish loading, listeners handle what they are sent, store
\* operations complete and heartbeats fire; connections need not drop
SpecDeferLive ==
    /\ SpecDefer
    /\ \A c \in DeferClients :
          /\ WF_vars(DeferInit(c)) /\ WF_vars(DeferListen(c))
          /\ WF_vars(DeferRoomListener(c)) /\ WF_vars(DeferResume(c))
          /\ WF_vars(DeferGridWrite(c)) /\ WF_vars(DeferStateWrite(c))
          /\ WF_vars(DeferInitWrite(c)) /\ WF_vars(DeferEnsureWrite(c))
          /\ WF_vars(DeferHeartbeat(c))

(***************************************************************************)
(* C32: a deferred startGame is tried again on later room updates: from    *)
(* any state in which the store holds the host's grid and the entries of   *)
(* all expected players, a listening client that is not running the match  *)
(* eventually runs it; and a listening client that has no slot in the      *)
(* roster eventually has one again (ensurePlayerInRoom).                   *)
(***************************************************************************)
DeferReady(c) ==
    /\ defer.client[c].phase = "listening" /\ ~defer.client[c].gameRunning
    /\ defer.grid /\ DeferClients \subseteq defer.roster

C32_DeferredStarts ==
    \A c \in DeferClients :
       /\ DeferReady(c) ~> defer.client[c].gameRunning
       /\ (defer.client[c].phase = "listening" /\ c \notin defer.roster)
             ~> c \in defer.roster

====
